---------------------------- MODULE Spec2Model ----------------------------
(***************************************************************************)
(* ISO 6336 gear strength calculation engine (src/agents/gear_calculations *)
(* .py) and its caller DrAnalysisAgent.perform_strength_analysis           *)
(* (src/agents/dr_analysis.py).                                            *)
(*                                                                         *)
(* Numbers.  A Python float is modelled as an exact rational <<n, d>> in   *)
(* lowest terms with d > 0.  +, -, * and / are exact; a division by zero   *)
(* is the Python ZeroDivisionError and is decided by the caller before     *)
(* RDiv is applied.  math.log, math.sqrt, math.sin and math.cos are        *)
(* evaluated to two decimals;             math.log of a non-positive     *)
(* number and math.sqrt of a negative number are the Python ValueError.    *)
(***************************************************************************)
EXTENDS Integers, Sequences, FiniteSets, TLC

(***************************************************************************)
(* Bounds of the model.                                                    *)
(***************************************************************************)
\* method calls the client of Spec makes
MaxCalls == 3
\* calculators the client of Spec constructs, one after the other
MaxCalcs == 2
\* concurrent perform_strength_analysis calls of RunSpec
MaxTasks == 2
\* tooth counts swept by FnSpec
MaxTeeth == 130
\* significant decimal digits kept by a rounded float quotient (FDiv); a
\* binary64 float keeps 53 bits
SigDigits == 5
\* steps each run of ShareSpec records on the shared calculator
MaxRecords == 2

(***************************************************************************)
(* Rational arithmetic                                                     *)
(***************************************************************************)
Abs(n) == IF n < 0 THEN -n ELSE n

\* the element of a one-element set
Only(S) == CHOOSE x \in S : TRUE

RECURSIVE GCD(_, _)
GCD(a, b) == IF b = 0 THEN a ELSE GCD(b, a % b)

\* the rational n/d (d # 0) in lowest terms, denominator positive
Norm(n, d) ==
    LET g == GCD(Abs(n), Abs(d))
        s == IF d < 0 THEN -1 ELSE 1
    IN  <<(s * n) \div g, Abs(d) \div g>>

Num(n) == <<n, 1>>
Dec(n, scale) == Norm(n, scale)

IsZero(a) == a[1] = 0
IsNeg(a) == a[1] < 0
IsPos(a) == a[1] > 0

RAdd(a, b) ==
    LET g == GCD(a[2], b[2])
    IN  Norm(a[1] * (b[2] \div g) + b[1] * (a[2] \div g), (a[2] \div g) * b[2])
RNeg(a) == <<-a[1], a[2]>>
RSub(a, b) == RAdd(a, RNeg(b))
\* cross-reduced before multiplying, so that intermediate products stay small
RMul(a, b) ==
    LET g1 == GCD(Abs(a[1]), b[2])
        g2 == GCD(Abs(b[1]), a[2])
    IN  <<(a[1] \div g1) * (b[1] \div g2), (a[2] \div g2) * (b[2] \div g1)>>
\* a / b for b # 0
RDiv(a, b) == RMul(a, IF b[1] < 0 THEN <<-b[2], -b[1]>> ELSE <<b[2], b[1]>>)
\* a/b < c/d for b, d > 0, by comparing the continued fractions: no product
\* is formed, so no width is exceeded
RECURSIVE Less(_, _, _, _)
Less(a, b, c, d) ==
    IF a \div b # c \div d THEN a \div b < c \div d
    ELSE IF c % d = 0 THEN FALSE
    ELSE IF a % b = 0 THEN TRUE
    ELSE Less(d, c % d, b, a % b)
RLt(a, b) == Less(a[1], a[2], b[1], b[2])
RLe(a, b) == ~RLt(b, a)

\* floor(r/d * 10^k) continued from the integer part q, by long division
RECURSIVE LongDiv(_, _, _, _)
LongDiv(q, r, d, k) ==
    IF k = 0 THEN q
    ELSE LongDiv(q * 10 + ((r * 10) \div d), (r * 10) % d, d, k - 1)

\* floor(a * 10^k) for a >= 0
FloorScaled(a, k) == LongDiv(a[1] \div a[2], a[1] % a[2], a[2], k)

\* the largest s in lo..hi-1 with s*s <= n, given lo*lo <= n < hi*hi
RECURSIVE SqrtSearch(_, _, _)
SqrtSearch(n, lo, hi) ==
    IF hi - lo <= 1 THEN lo
    ELSE LET mid == (lo + hi) \div 2
         IN  IF mid * mid <= n THEN SqrtSearch(n, mid, hi)
             ELSE SqrtSearch(n, lo, mid)

ISqrt(n) == SqrtSearch(n, 0, 46341)

\* math.sqrt(a) for a >= 0, to two decimals
Sqrt(a) == Norm(ISqrt(FloorScaled(a, 4)), 100)

\* math.log: a = m * 2^k with 1 <= m < 2, ln a = k ln 2 + 2 atanh((m-1)/(m+1))
RECURSIVE LnReduce(_, _)
LnReduce(a, k) ==
    IF RLe(Num(2), a) THEN LnReduce(RDiv(a, Num(2)), k + 1)
    ELSE IF RLt(a, Num(1)) THEN LnReduce(RMul(a, Num(2)), k - 1)
    ELSE <<a, k>>

\* 10^4 * 2 atanh(y) for y = Y / 10^4, 0 <= y < 1/3
Atanh2(Y) ==
    LET Y2 == (Y * Y) \div 10000
        t3 == (Y * Y2) \div 10000
        t5 == (t3 * Y2) \div 10000
        t7 == (t5 * Y2) \div 10000
    IN  2 * (Y + (t3 \div 3) + (t5 \div 5) + (t7 \div 7))

\* math.log(a) for a > 0, to two decimals
Ln(a) ==
    LET mk == LnReduce(a, 0)
        m == mk[1]
        Y == FloorScaled(RDiv(RSub(m, Num(1)), RAdd(m, Num(1))), 4)
        v == mk[2] * 6931 + Atanh2(Y)
    IN  Norm((v + 50) \div 100, 100)

\* math.pi
Pi == Dec(314, 100)

\* math.cos(math.radians(deg)) and math.sin(math.radians(deg)).  radians(180)
\* is the float nearest pi, not pi, and the sine of it is not 0 but about
\* 1.2e-16 (and about -1.2e-16 at -180): SinNearPi stands for that small
\* positive float.
SinNearPi == Dec(1, 10000)
Cos(deg) ==
    CASE deg = Num(0) -> Num(1)
      [] deg = Num(20) -> Dec(94, 100)
      [] deg = Num(25) -> Dec(91, 100)
      [] deg = Num(180) -> Num(-1)
      [] deg = Num(-180) -> Num(-1)
Sin(deg) ==
    CASE deg = Num(0) -> Num(0)
      [] deg = Num(20) -> Dec(34, 100)
      [] deg = Num(25) -> Dec(42, 100)
      [] deg = Num(180) -> SinNearPi
      [] deg = Num(-180) -> RNeg(SinNearPi)

\* 10^k
RECURSIVE Pow10(_)
Pow10(k) == IF k = 0 THEN 1 ELSE 10 * Pow10(k - 1)

\* <<floor(r/d * 10^k) continued from the integer part q, the remainder>>
RECURSIVE LongDivRem(_, _, _, _)
LongDivRem(q, r, d, k) ==
    IF k = 0 THEN <<q, r>>
    ELSE LongDivRem(q * 10 + ((r * 10) \div d), (r * 10) % d, d, k - 1)

\* format(a, ".kf"): a rounded to k decimals, ties to even
Fmt(a, k) ==
    LET qr == LongDivRem(Abs(a[1]) \div a[2], Abs(a[1]) % a[2], a[2], k)
        f == qr[1]
        up == 2 * qr[2] > a[2] \/ (2 * qr[2] = a[2] /\ f % 2 = 1)
        r == IF up THEN f + 1 ELSE f
    IN  Norm(IF a[1] < 0 THEN -r ELSE r, Pow10(k))

\* the digits of q + r/d continued until SigDigits significant digits are
\* there or the quotient is exact: <<digits, remainder, decimals>>
RECURSIVE SigScale(_, _, _, _)
SigScale(q, r, d, k) ==
    IF q >= Pow10(SigDigits - 1) \/ r = 0 \/ k = 9 THEN <<q, r, k>>
    ELSE SigScale(q * 10 + ((r * 10) \div d), (r * 10) % d, d, k + 1)

\* the number of integer digits of q beyond SigDigits
RECURSIVE Excess(_)
Excess(q) == IF q < Pow10(SigDigits) THEN 0 ELSE 1 + Excess(q \div 10)

\* a rounded to SigDigits significant digits, ties to even: the rounding of a
\* float operation's exact result to the precision of the format
FRound(a) ==
    LET n == Abs(a[1])
        s == SigScale(n \div a[2], n % a[2], a[2], 0)
        p == Pow10(Excess(s[1]))
        m == s[1] \div p
        low == s[1] % p
        up == IF p = 1
              THEN 2 * s[2] > a[2] \/ (2 * s[2] = a[2] /\ m % 2 = 1)
              ELSE 2 * low > p \/ (2 * low = p /\ (s[2] > 0 \/ m % 2 = 1))
        r == (IF up THEN m + 1 ELSE m) * p
    IN  Norm(IF a[1] < 0 THEN -r ELSE r, Pow10(s[3]))

\* the float quotient a / b for b # 0: the exact quotient, rounded
FDiv(a, b) == FRound(RDiv(a, b))

\* the float product a * b: the exact product, rounded
FMul(a, b) == FRound(RMul(a, b))

(***************************************************************************)
(* Physical data records                                                   *)
(***************************************************************************)
GearGeometry(module, teeth_pinion, teeth_gear, face_width, pressure_angle) ==
    [module |-> module, teeth_pinion |-> teeth_pinion, teeth_gear |-> teeth_gear,
     face_width |-> face_width, pressure_angle |-> pressure_angle]

\* GearGeometry.gear_ratio, for teeth_pinion # 0
gear_ratio(g) == FDiv(Num(g.teeth_gear), Num(g.teeth_pinion))
pitch_diameter_pinion(g) == RMul(g.module, Num(g.teeth_pinion))
\* mutant: the gear's pitch diameter is computed from the pinion's tooth count
pitch_diameter_gear_of_pinion(g) == RMul(g.module, Num(g.teeth_pinion))
pitch_diameter_gear(g) == RMul(g.module, Num(g.teeth_gear))
center_distance(g) ==
    RDiv(RAdd(pitch_diameter_pinion(g), pitch_diameter_gear(g)), Num(2))

LoadConditions(input_torque, input_speed, power) ==
    [input_torque |-> input_torque, input_speed |-> input_speed, power |-> power]

MaterialProperties(name, allowable_bending, allowable_contact, elastic_modulus, poisson_ratio, density) ==
    [name |-> name, allowable_bending |-> allowable_bending,
     allowable_contact |-> allowable_contact, elastic_modulus |-> elastic_modulus,
     poisson_ratio |-> poisson_ratio, density |-> density]

CalculationStep(step_number, description, formula, variables, calculation, result, unit, notes) ==
    [step_number |-> step_number, description |-> description, formula |-> formula,
     variables |-> variables, calculation |-> calculation, result |-> result,
     unit |-> unit, notes |-> notes]

\* an f-string: its text with {} for each interpolated value, and the values
FStr(text, args) == [text |-> text, args |-> args]

\* one entry of a step's variables dict (a dict keeps insertion order): a float
\* value, or an int value
V(name, value) == [name |-> name, value |-> value, is_float |-> TRUE]
VI(name, value) == [name |-> name, value |-> Num(value), is_float |-> FALSE]

(***************************************************************************)
(* ISO6336Calculator.  A call of a method yields an outcome: the           *)
(* calculator as the call leaves it, the exception raised ("none" when     *)
(* the call returns) and the returned values (<<>> when it raises or       *)
(* returns None).                                                          *)
(***************************************************************************)
NewCalculator == [calculation_steps |-> <<>>, step_counter |-> 0]

Return(calc, ret) == [calc |-> calc, raised |-> "none", ret |-> ret]
Raise(calc, exc) == [calc |-> calc, raised |-> exc, ret |-> <<>>]

\* mutant: the step is numbered before the counter is incremented
add_calculation_step_stale_number(calc, description, formula, variables, calculation, result, unit, notes) ==
    Only({[calculation_steps |->
               Append(self.calculation_steps,
                      CalculationStep(self.step_counter, description, formula,
                                      variables, calculation, result, unit, notes)),
           step_counter |-> self.step_counter + 1] : self \in {calc}})

\* mutant: the step list is assigned instead of appended to
add_calculation_step_overwrite(calc, description, formula, variables, calculation, result, unit, notes) ==
    Only({[calculation_steps |->
               <<CalculationStep(self.step_counter + 1, description, formula,
                                 variables, calculation, result, unit, notes)>>,
           step_counter |-> self.step_counter + 1] : self \in {calc}})

\* mutant: a step the ledger already holds is not recorded a second time
add_calculation_step_once(calc, description, formula, variables, calculation, result, unit, notes) ==
    IF \E k \in 1..Len(calc.calculation_steps) :
           /\ calc.calculation_steps[k].description = description
           /\ calc.calculation_steps[k].variables = variables
           /\ calc.calculation_steps[k].result = result
    THEN calc
    ELSE Only({[calculation_steps |->
                    Append(self.calculation_steps,
                           CalculationStep(self.step_counter + 1, description, formula,
                                           variables, calculation, result, unit, notes)),
                step_counter |-> self.step_counter + 1] : self \in {calc}})

add_calculation_step(calc, description, formula, variables, calculation, result, unit, notes) ==
    Only({[calculation_steps |->
               Append(self.calculation_steps,
                      CalculationStep(self.step_counter + 1, description, formula,
                                      variables, calculation, result, unit, notes)),
           step_counter |-> self.step_counter + 1] : self \in {calc}})

\* mutant: a zero radius is answered with a zero force instead of an error
calculate_tangential_force_default(calc, geometry, load) ==
    LET d1 == pitch_diameter_pinion(geometry)
        r_pinion == RDiv(d1, Num(2))
        Ft == IF IsZero(r_pinion) THEN Num(0)
              ELSE RDiv(RMul(load.input_torque, Num(1000)), r_pinion)
        c1 == add_calculation_step(calc, "r1", "r1 = d1/2 = (mn x z1)/2",
                  <<V("mn", geometry.module), VI("z1", geometry.teeth_pinion),
                    V("d1", d1)>>,
                  FStr("r1 = {}/2", <<d1>>), r_pinion, "mm", "pitch radius")
        c2 == add_calculation_step(c1, "Ft", "Ft = T/r1",
                  <<V("T", load.input_torque), V("r1", r_pinion)>>,
                  FStr("Ft = ({} x 1000)/{}", <<load.input_torque, r_pinion>>),
                  Ft, "N", "tangential force")
    IN  Return(c2, <<Ft>>)

\* mutant: the radius step is recorded only once the force is known
calculate_tangential_force_late_record(calc, geometry, load) ==
    LET d1 == pitch_diameter_pinion(geometry)
        r_pinion == RDiv(d1, Num(2))
        c1 == add_calculation_step(calc, "r1", "r1 = d1/2 = (mn x z1)/2",
                  <<V("mn", geometry.module), VI("z1", geometry.teeth_pinion),
                    V("d1", d1)>>,
                  FStr("r1 = {}/2", <<d1>>), r_pinion, "mm", "pitch radius")
    IN  IF IsZero(r_pinion) THEN Raise(calc, "ZeroDivisionError")
        ELSE LET Ft == RDiv(RMul(load.input_torque, Num(1000)), r_pinion)
                 c2 == add_calculation_step(c1, "Ft", "Ft = T/r1",
                           <<V("T", load.input_torque), V("r1", r_pinion)>>,
                           FStr("Ft = ({} x 1000)/{}",
                                <<load.input_torque, r_pinion>>),
                           Ft, "N", "tangential force")
             IN  Return(c2, <<Ft>>)

\* mutant: the torque is divided by the pitch diameter instead of the radius
calculate_tangential_force_diameter(calc, geometry, load) ==
    LET d1 == pitch_diameter_pinion(geometry)
        r_pinion == RDiv(d1, Num(2))
        c1 == add_calculation_step(calc, "r1", "r1 = d1/2 = (mn x z1)/2",
                  <<V("mn", geometry.module), VI("z1", geometry.teeth_pinion),
                    V("d1", d1)>>,
                  FStr("r1 = {}/2", <<d1>>), r_pinion, "mm", "pitch radius")
    IN  IF IsZero(r_pinion) THEN Raise(c1, "ZeroDivisionError")
        ELSE LET Ft == RDiv(RMul(load.input_torque, Num(1000)), d1)
                 c2 == add_calculation_step(c1, "Ft", "Ft = T/r1",
                           <<V("T", load.input_torque), V("r1", r_pinion)>>,
                           FStr("Ft = ({} x 1000)/{}",
                                <<load.input_torque, r_pinion>>),
                           Ft, "N", "tangential force")
             IN  Return(c2, <<Ft>>)

calculate_tangential_force(calc, geometry, load) ==
    LET d1 == pitch_diameter_pinion(geometry)
        r_pinion == RDiv(d1, Num(2))
        c1 == add_calculation_step(calc, "r1", "r1 = d1/2 = (mn x z1)/2",
                  <<V("mn", geometry.module), VI("z1", geometry.teeth_pinion),
                    V("d1", d1)>>,
                  FStr("r1 = {}/2", <<d1>>), r_pinion, "mm", "pitch radius")
    IN  IF IsZero(r_pinion) THEN Raise(c1, "ZeroDivisionError")
        ELSE LET Ft == RDiv(RMul(load.input_torque, Num(1000)), r_pinion)
                 c2 == add_calculation_step(c1, "Ft", "Ft = T/r1",
                           <<V("T", load.input_torque), V("r1", r_pinion)>>,
                           FStr("Ft = ({} x 1000)/{}",
                                <<load.input_torque, r_pinion>>),
                           Ft, "N", "tangential force")
             IN  Return(c2, <<Ft>>)

\* mutant: the second band is open at 25
Y_Fa_open_at_25(teeth) ==
    IF teeth < 12 THEN RAdd(Dec(18, 100), RDiv(RMul(Dec(15, 100), Num(teeth)), Num(12)))
    ELSE IF teeth < 25 THEN RSub(Dec(154, 1000), RDiv(Dec(912, 1000), Num(teeth)))
    ELSE IF teeth <= 100 THEN RSub(Dec(175, 1000), RDiv(Dec(841, 1000), Num(teeth)))
    ELSE RSub(Dec(175, 1000), RDiv(Dec(841, 10), Num(teeth)))

\* the four bands of the Lewis form factor approximation
Y_Fa(teeth) ==
    IF teeth < 12 THEN RAdd(Dec(18, 100), RDiv(RMul(Dec(15, 100), Num(teeth)), Num(12)))
    ELSE IF teeth <= 25 THEN RSub(Dec(154, 1000), RDiv(Dec(912, 1000), Num(teeth)))
    ELSE IF teeth <= 100 THEN RSub(Dec(175, 1000), RDiv(Dec(841, 1000), Num(teeth)))
    ELSE RSub(Dec(175, 1000), RDiv(Dec(841, 10), Num(teeth)))

calculate_form_factor(calc, teeth) ==
    LET Y == Y_Fa(teeth)
        c1 == add_calculation_step(calc, "Y_Fa",
                  IF teeth <= 25 THEN "Y_Fa = f(z) [ISO 6336-3 Table]"
                  ELSE "Y_Fa = 0.175 - 84.1/z (z>25)",
                  <<VI("z", teeth)>>,
                  IF teeth > 25 THEN FStr("Y_Fa = 0.175 - 84.1/{}", <<Num(teeth)>>)
                  ELSE FStr("table lookup (z={})", <<Num(teeth)>>),
                  Y, "-", "form factor")
    IN  Return(c1, <<Y>>)

\* mutant: a tooth count below 1 is clamped to 1 before the logarithm
calculate_stress_correction_factor_clamped(calc, teeth) ==
    LET z == IF teeth < 1 THEN 1 ELSE teeth
        Y_Sa == IF z <= 25
                THEN RAdd(Dec(12, 10), RMul(Dec(13, 100), Ln(Num(z))))
                ELSE RAdd(Dec(15, 10), RMul(Dec(25, 100), Ln(RDiv(Num(z), Num(25)))))
        c1 == add_calculation_step(calc, "Y_Sa",
                  IF teeth <= 25 THEN "Y_Sa = 1.2 + 0.13xln(z) (z<=25)"
                  ELSE "Y_Sa = 1.5 + 0.25xln(z/25) (z>25)",
                  <<VI("z", teeth)>>,
                  IF teeth <= 25
                  THEN FStr("Y_Sa = 1.2 + 0.13xln({})", <<Num(teeth)>>)
                  ELSE FStr("Y_Sa = 1.5 + 0.25xln({}/25)", <<Num(teeth)>>),
                  Y_Sa, "-", "stress correction factor")
    IN  Return(c1, <<Y_Sa>>)

calculate_stress_correction_factor(calc, teeth) ==
    IF teeth <= 25 /\ teeth <= 0 THEN Raise(calc, "ValueError")
    ELSE LET Y_Sa == IF teeth <= 25
                     THEN RAdd(Dec(12, 10), RMul(Dec(13, 100), Ln(Num(teeth))))
                     ELSE RAdd(Dec(15, 10),
                               RMul(Dec(25, 100), Ln(RDiv(Num(teeth), Num(25)))))
             c1 == add_calculation_step(calc, "Y_Sa",
                       IF teeth <= 25 THEN "Y_Sa = 1.2 + 0.13xln(z) (z<=25)"
                       ELSE "Y_Sa = 1.5 + 0.25xln(z/25) (z>25)",
                       <<VI("z", teeth)>>,
                       IF teeth <= 25
                       THEN FStr("Y_Sa = 1.2 + 0.13xln({})", <<Num(teeth)>>)
                       ELSE FStr("Y_Sa = 1.5 + 0.25xln({}/25)", <<Num(teeth)>>),
                       Y_Sa, "-", "stress correction factor")
         IN  Return(c1, <<Y_Sa>>)

\* the bending stress of one member from its factors o1 (form) and o2 (stress
\* correction), and its recorded step
bending_sigma(o1, o2, geometry, Ft, description, notes) ==
    LET den == RMul(geometry.face_width, geometry.module)
    IN  IF o2.raised # "none" THEN o2
        ELSE IF IsZero(den) THEN Raise(o2.calc, "ZeroDivisionError")
        ELSE LET Y_Fa_m == o1.ret[1]
                 Y_Sa_m == o2.ret[1]
                 sigma_F == RDiv(RMul(RMul(Ft, Y_Fa_m), Y_Sa_m), den)
                 c1 == add_calculation_step(o2.calc, description,
                           "sigmaF = (Ft x Y_Fa x Y_Sa)/(b x mn)",
                           <<V("Ft", Ft), V("Y_Fa", Y_Fa_m), V("Y_Sa", Y_Sa_m),
                             V("b", geometry.face_width), V("mn", geometry.module)>>,
                           FStr("sigmaF = ({} x {} x {})/({} x {})",
                                <<Fmt(Ft, 1), Fmt(Y_Fa_m, 3), Fmt(Y_Sa_m, 3),
                                  geometry.face_width, geometry.module>>),
                           sigma_F, "MPa", notes)
             IN  Return(c1, <<sigma_F>>)

\* one member (pinion or gear) of calculate_bending_stress
bending_member(calc, geometry, Ft, teeth, description, notes) ==
    Only({Only({bending_sigma(o1, o2, geometry, Ft, description, notes) :
                o2 \in {calculate_stress_correction_factor(o1.calc, teeth)}}) :
          o1 \in {calculate_form_factor(calc, teeth)}})

\* mutant: the gear is computed and recorded before the pinion
calculate_bending_stress_gear_first(calc, geometry, load, Ft) ==
    Only({IF g.raised # "none" THEN g
          ELSE Only({IF p.raised # "none" THEN p
                     ELSE Return(p.calc, <<p.ret[1], g.ret[1]>>) :
                     p \in {bending_member(g.calc, geometry, Ft, geometry.teeth_pinion,
                                           "sigmaF_pinion", "pinion bending stress")}}) :
          g \in {bending_member(calc, geometry, Ft, geometry.teeth_gear,
                                "sigmaF_gear", "gear bending stress")}})

\* mutant: the gear's factors are computed from the pinion's tooth count
calculate_bending_stress_pinion_teeth(calc, geometry, load, Ft) ==
    Only({IF p.raised # "none" THEN p
          ELSE Only({IF g.raised # "none" THEN g
                     ELSE Return(g.calc, <<p.ret[1], g.ret[1]>>) :
                     g \in {bending_member(p.calc, geometry, Ft, geometry.teeth_pinion,
                                           "sigmaF_gear", "gear bending stress")}}) :
          p \in {bending_member(calc, geometry, Ft, geometry.teeth_pinion,
                                "sigmaF_pinion", "pinion bending stress")}})

calculate_bending_stress(calc, geometry, load, Ft) ==
    Only({IF p.raised # "none" THEN p
          ELSE Only({IF g.raised # "none" THEN g
                     ELSE Return(g.calc, <<p.ret[1], g.ret[1]>>) :
                     g \in {bending_member(p.calc, geometry, Ft, geometry.teeth_gear,
                                           "sigmaF_gear", "gear bending stress")}}) :
          p \in {bending_member(calc, geometry, Ft, geometry.teeth_pinion,
                                "sigmaF_pinion", "pinion bending stress")}})

\* mutant: only the final stress is recorded, the factors are not
calculate_contact_stress_result_only(calc, geometry, material, Ft) ==
    LET sn == Sin(geometry.pressure_angle)
        cs == Cos(geometry.pressure_angle)
        q == RDiv(RMul(Num(2), cs), sn)
        Z_H == Sqrt(q)
        E == material.elastic_modulus
        term == RDiv(RSub(Num(1), RMul(Dec(3, 10), Dec(3, 10))), E)
        inv == RDiv(Num(1), RMul(Pi, RAdd(term, term)))
        Z_E == Sqrt(inv)
        Z_epsilon == Sqrt(Dec(9, 10))
        u == gear_ratio(geometry)
        d1 == pitch_diameter_pinion(geometry)
        den == RMul(RMul(geometry.face_width, d1), u)
        rad == RDiv(RMul(Ft, RAdd(u, Num(1))), den)
        sigma_H == RMul(RMul(RMul(Z_H, Z_E), Z_epsilon), Sqrt(rad))
        c4 == add_calculation_step(calc, "sigmaH",
                  "sigmaH = Z_H x Z_E x Z_eps x sqrt(Ftx(u+1)/(bxd1xu))",
                  <<V("Z_H", Z_H), V("Z_E", Z_E), V("Z_eps", Z_epsilon),
                    V("Ft", Ft), V("u", u), V("b", geometry.face_width),
                    V("d1", d1)>>,
                  FStr("sigmaH = {}x{}x{}xsqrt({}x{}/({}x{}x{}))",
                       <<Fmt(Z_H, 2), Fmt(Z_E, 1), Fmt(Z_epsilon, 3), Fmt(Ft, 1),
                         Fmt(RAdd(u, Num(1)), 1), geometry.face_width, d1,
                         Fmt(u, 1)>>),
                  sigma_H, "MPa", "same contact stress on both gears")
    IN  IF IsZero(sn) THEN Raise(calc, "ZeroDivisionError")
        ELSE IF IsNeg(q) THEN Raise(calc, "ValueError")
        ELSE IF IsZero(E) THEN Raise(calc, "ZeroDivisionError")
        ELSE IF IsNeg(inv) THEN Raise(calc, "ValueError")
        ELSE IF geometry.teeth_pinion = 0 THEN Raise(calc, "ZeroDivisionError")
        ELSE IF IsZero(den) THEN Raise(calc, "ZeroDivisionError")
        ELSE IF IsNeg(rad) THEN Raise(calc, "ValueError")
        ELSE Return(c4, <<sigma_H>>)

calculate_contact_stress(calc, geometry, material, Ft) ==
    LET sn == Sin(geometry.pressure_angle)
        cs == Cos(geometry.pressure_angle)
        q == RDiv(RMul(Num(2), cs), sn)
        Z_H == Sqrt(q)
        c1 == add_calculation_step(calc, "Z_H", "Z_H = sqrt(2xcos(an)/sin(an))",
                  <<V("an", geometry.pressure_angle), V("cos(an)", cs),
                    V("sin(an)", sn)>>,
                  FStr("Z_H = sqrt(2x{}/{})", <<Fmt(cs, 3), Fmt(sn, 3)>>),
                  Z_H, "-", "zone factor")
        E == material.elastic_modulus
        term == RDiv(RSub(Num(1), RMul(Dec(3, 10), Dec(3, 10))), E)
        inv == RDiv(Num(1), RMul(Pi, RAdd(term, term)))
        Z_E == Sqrt(inv)
        c2 == add_calculation_step(c1, "Z_E",
                  "Z_E = sqrt(1/(pi x ((1-v1^2)/E1 + (1-v2^2)/E2)))",
                  <<V("v", Dec(3, 10)), V("E", E), V("pi", Pi)>>,
                  FStr("Z_E = sqrt(1/(pi x 2 x (1-0.3^2)/{}))", <<E>>),
                  Z_E, "sqrt(MPa)", "same material on both members")
        Z_epsilon == Sqrt(Dec(9, 10))
        c3 == add_calculation_step(c2, "Z_eps",
                  "Z_eps = sqrt(ea) (ea = 1.8 for standard gears)",
                  <<V("ea", Dec(18, 10))>>,
                  FStr("Z_eps = sqrt(1.8x0.5) = sqrt(0.9)", <<>>),
                  Z_epsilon, "-", "contact ratio of standard gears")
        u == gear_ratio(geometry)
        d1 == pitch_diameter_pinion(geometry)
        den == RMul(RMul(geometry.face_width, d1), u)
        rad == RDiv(RMul(Ft, RAdd(u, Num(1))), den)
        sigma_H == RMul(RMul(RMul(Z_H, Z_E), Z_epsilon), Sqrt(rad))
        c4 == add_calculation_step(c3, "sigmaH",
                  "sigmaH = Z_H x Z_E x Z_eps x sqrt(Ftx(u+1)/(bxd1xu))",
                  <<V("Z_H", Z_H), V("Z_E", Z_E), V("Z_eps", Z_epsilon),
                    V("Ft", Ft), V("u", u), V("b", geometry.face_width),
                    V("d1", d1)>>,
                  FStr("sigmaH = {}x{}x{}xsqrt({}x{}/({}x{}x{}))",
                       <<Fmt(Z_H, 2), Fmt(Z_E, 1), Fmt(Z_epsilon, 3), Fmt(Ft, 1),
                         Fmt(RAdd(u, Num(1)), 1), geometry.face_width, d1,
                         Fmt(u, 1)>>),
                  sigma_H, "MPa", "same contact stress on both gears")
    IN  IF IsZero(sn) THEN Raise(calc, "ZeroDivisionError")
        ELSE IF IsNeg(q) THEN Raise(calc, "ValueError")
        ELSE IF IsZero(E) THEN Raise(c1, "ZeroDivisionError")
        ELSE IF IsNeg(inv) THEN Raise(c1, "ValueError")
        ELSE IF geometry.teeth_pinion = 0 THEN Raise(c3, "ZeroDivisionError")
        ELSE IF IsZero(den) THEN Raise(c3, "ZeroDivisionError")
        ELSE IF IsNeg(rad) THEN Raise(c3, "ValueError")
        ELSE Return(c4, <<sigma_H>>)

\* one division of calculate_safety_factors with its recorded step, for sigma # 0
safety_step(calc, description, formula, limit_name, sigma_name, limit, sigma, notes) ==
    add_calculation_step(calc, description, formula,
        <<V(limit_name, limit), V(sigma_name, sigma)>>,
        FStr("S = {}/{}", <<limit, Fmt(sigma, 1)>>),
        FDiv(limit, sigma), "-", notes)

\* mutant: a zero stress is replaced by 1 before dividing
calculate_safety_factors_default(calc, sigma_F_pinion, sigma_F_gear, sigma_H, material) ==
    LET s1 == IF IsZero(sigma_F_pinion) THEN Num(1) ELSE sigma_F_pinion
        s2 == IF IsZero(sigma_F_gear) THEN Num(1) ELSE sigma_F_gear
        s3 == IF IsZero(sigma_H) THEN Num(1) ELSE sigma_H
        c1 == safety_step(calc, "SF_pinion", "SF = sigmaF,lim / sigmaF",
                  "sigmaF,lim", "sigmaF", material.allowable_bending,
                  s1, "bending safety factor of 1.5 or more advised")
        c2 == safety_step(c1, "SF_gear", "SF = sigmaF,lim / sigmaF",
                  "sigmaF,lim", "sigmaF", material.allowable_bending,
                  s2, "driven gear usually has the higher factor")
        c3 == safety_step(c2, "SH", "SH = sigmaH,lim / sigmaH",
                  "sigmaH,lim", "sigmaH", material.allowable_contact,
                  s3, "contact safety factor of 1.2 or more advised")
    IN  Return(c3, <<FDiv(material.allowable_bending, s1),
                     FDiv(material.allowable_bending, s2),
                     FDiv(material.allowable_contact, s3)>>)

\* mutant: the gear's factor is taken against the contact limit
calculate_safety_factors_gear_contact_limit(calc, sigma_F_pinion, sigma_F_gear, sigma_H, material) ==
    LET c1 == safety_step(calc, "SF_pinion", "SF = sigmaF,lim / sigmaF",
                  "sigmaF,lim", "sigmaF", material.allowable_bending,
                  sigma_F_pinion, "bending safety factor of 1.5 or more advised")
        c2 == safety_step(c1, "SF_gear", "SF = sigmaF,lim / sigmaF",
                  "sigmaF,lim", "sigmaF", material.allowable_contact,
                  sigma_F_gear, "driven gear usually has the higher factor")
        c3 == safety_step(c2, "SH", "SH = sigmaH,lim / sigmaH",
                  "sigmaH,lim", "sigmaH", material.allowable_contact,
                  sigma_H, "contact safety factor of 1.2 or more advised")
    IN  IF IsZero(sigma_F_pinion) THEN Raise(calc, "ZeroDivisionError")
        ELSE IF IsZero(sigma_F_gear) THEN Raise(c1, "ZeroDivisionError")
        ELSE IF IsZero(sigma_H) THEN Raise(c2, "ZeroDivisionError")
        ELSE Return(c3, <<FDiv(material.allowable_bending, sigma_F_pinion),
                          FDiv(material.allowable_contact, sigma_F_gear),
                          FDiv(material.allowable_contact, sigma_H)>>)

\* mutant: the limit is multiplied by the stress instead of divided
calculate_safety_factors_product(calc, sigma_F_pinion, sigma_F_gear, sigma_H, material) ==
    LET S_pinion == FRound(RMul(material.allowable_bending, sigma_F_pinion))
        S_gear == FRound(RMul(material.allowable_bending, sigma_F_gear))
        S_H == FRound(RMul(material.allowable_contact, sigma_H))
        c1 == add_calculation_step(calc, "SF_pinion", "SF = sigmaF,lim / sigmaF",
                  <<V("sigmaF,lim", material.allowable_bending), V("sigmaF", sigma_F_pinion)>>,
                  FStr("S = {}/{}", <<material.allowable_bending, Fmt(sigma_F_pinion, 1)>>),
                  S_pinion, "-", "bending safety factor of 1.5 or more advised")
        c2 == add_calculation_step(c1, "SF_gear", "SF = sigmaF,lim / sigmaF",
                  <<V("sigmaF,lim", material.allowable_bending), V("sigmaF", sigma_F_gear)>>,
                  FStr("S = {}/{}", <<material.allowable_bending, Fmt(sigma_F_gear, 1)>>),
                  S_gear, "-", "driven gear usually has the higher factor")
        c3 == add_calculation_step(c2, "SH", "SH = sigmaH,lim / sigmaH",
                  <<V("sigmaH,lim", material.allowable_contact), V("sigmaH", sigma_H)>>,
                  FStr("S = {}/{}", <<material.allowable_contact, Fmt(sigma_H, 1)>>),
                  S_H, "-", "contact safety factor of 1.2 or more advised")
    IN  Return(c3, <<S_pinion, S_gear, S_H>>)

\* mutant: the gear's factor is returned before the pinion's
calculate_safety_factors_returns_gear_first(calc, sigma_F_pinion, sigma_F_gear, sigma_H, material) ==
    LET c1 == safety_step(calc, "SF_pinion", "SF = sigmaF,lim / sigmaF",
                  "sigmaF,lim", "sigmaF", material.allowable_bending,
                  sigma_F_pinion, "bending safety factor of 1.5 or more advised")
        c2 == safety_step(c1, "SF_gear", "SF = sigmaF,lim / sigmaF",
                  "sigmaF,lim", "sigmaF", material.allowable_bending,
                  sigma_F_gear, "driven gear usually has the higher factor")
        c3 == safety_step(c2, "SH", "SH = sigmaH,lim / sigmaH",
                  "sigmaH,lim", "sigmaH", material.allowable_contact,
                  sigma_H, "contact safety factor of 1.2 or more advised")
    IN  IF IsZero(sigma_F_pinion) THEN Raise(calc, "ZeroDivisionError")
        ELSE IF IsZero(sigma_F_gear) THEN Raise(c1, "ZeroDivisionError")
        ELSE IF IsZero(sigma_H) THEN Raise(c2, "ZeroDivisionError")
        ELSE Return(c3, <<FDiv(material.allowable_bending, sigma_F_gear),
                          FDiv(material.allowable_bending, sigma_F_pinion),
                          FDiv(material.allowable_contact, sigma_H)>>)

calculate_safety_factors(calc, sigma_F_pinion, sigma_F_gear, sigma_H, material) ==
    LET c1 == safety_step(calc, "SF_pinion", "SF = sigmaF,lim / sigmaF",
                  "sigmaF,lim", "sigmaF", material.allowable_bending,
                  sigma_F_pinion, "bending safety factor of 1.5 or more advised")
        c2 == safety_step(c1, "SF_gear", "SF = sigmaF,lim / sigmaF",
                  "sigmaF,lim", "sigmaF", material.allowable_bending,
                  sigma_F_gear, "driven gear usually has the higher factor")
        c3 == safety_step(c2, "SH", "SH = sigmaH,lim / sigmaH",
                  "sigmaH,lim", "sigmaH", material.allowable_contact,
                  sigma_H, "contact safety factor of 1.2 or more advised")
    IN  IF IsZero(sigma_F_pinion) THEN Raise(calc, "ZeroDivisionError")
        ELSE IF IsZero(sigma_F_gear) THEN Raise(c1, "ZeroDivisionError")
        ELSE IF IsZero(sigma_H) THEN Raise(c2, "ZeroDivisionError")
        ELSE Return(c3, <<FDiv(material.allowable_bending, sigma_F_pinion),
                          FDiv(material.allowable_bending, sigma_F_gear),
                          FDiv(material.allowable_contact, sigma_H)>>)

\* one line of the report: its text with {} for each interpolated value
Line(text, strs, nums) == [text |-> text, strs |-> strs, nums |-> nums]

\* mutant: the notes line is written for every step, also with empty notes
report_section_always_notes(step) ==
    <<Line("## step {}: {}\n", <<step.description>>, <<Num(step.step_number)>>),
      Line("**formula:** {}\n", <<step.formula>>, <<>>),
      Line("**variables:**", <<>>, <<>>)>>
    \o [i \in 1..Len(step.variables) |->
          LET v == step.variables[i]
          IN  IF v.is_float THEN Line("- {} = {:.3f}", <<v.name>>, <<Fmt(v.value, 3)>>)
              ELSE Line("- {} = {}", <<v.name>>, <<v.value>>)]
    \o <<Line("\n**calculation:** {}", <<step.calculation.text>>, step.calculation.args),
         Line("**result:** {:.3f} {}", <<step.unit>>, <<Fmt(step.result, 3)>>)>>
    \o <<Line("**notes:** {}", <<step.notes>>, <<>>)>>
    \o <<Line("", <<>>, <<>>)>>

\* the lines generate_calculation_report appends for one step
report_section(step) ==
    <<Line("## step {}: {}\n", <<step.description>>, <<Num(step.step_number)>>),
      Line("**formula:** {}\n", <<step.formula>>, <<>>),
      Line("**variables:**", <<>>, <<>>)>>
    \o [i \in 1..Len(step.variables) |->
          LET v == step.variables[i]
          IN  IF v.is_float THEN Line("- {} = {:.3f}", <<v.name>>, <<Fmt(v.value, 3)>>)
              ELSE Line("- {} = {}", <<v.name>>, <<v.value>>)]
    \o <<Line("\n**calculation:** {}", <<step.calculation.text>>, step.calculation.args),
         Line("**result:** {:.3f} {}", <<step.unit>>, <<Fmt(step.result, 3)>>)>>
    \o (IF step.notes # "" THEN <<Line("**notes:** {}", <<step.notes>>, <<>>)>> ELSE <<>>)
    \o <<Line("", <<>>, <<>>)>>

RECURSIVE report_sections(_)
report_sections(steps) ==
    IF steps = <<>> THEN <<>>
    ELSE report_section(Head(steps)) \o report_sections(Tail(steps))

\* the list report of lines that "\n".join turns into the report string
report_lines(steps) ==
    <<Line("# ISO 6336 calculation\n", <<>>, <<>>)>> \o report_sections(steps)

\* the outcome of a call that returns the string report
ReturnReport(calc, report) == [calc |-> calc, raised |-> "none", ret |-> <<>>, report |-> report]

\* mutant: rendering is itself recorded as a step of the ledger
generate_calculation_report_recorded(calc) ==
    ReturnReport(add_calculation_step(calc, "report", "", <<>>, FStr("", <<>>),
                                      Num(Len(calc.calculation_steps)), "-", "report rendered"),
                 report_lines(calc.calculation_steps))

\* mutant: rendering advances the step counter
generate_calculation_report_counted(calc) ==
    ReturnReport([calc EXCEPT !.step_counter = @ + 1], report_lines(calc.calculation_steps))

generate_calculation_report(calc) ==
    ReturnReport(calc, report_lines(calc.calculation_steps))

\* mutant: int(a) rounds to the nearest integer
Trunc_nearest(a) ==
    IF a[1] >= 0 THEN (2 * a[1] + a[2]) \div (2 * a[2])
    ELSE -((2 * (-a[1]) + a[2]) \div (2 * a[2]))

\* int(a): truncation toward zero
Trunc(a) == IF a[1] >= 0 THEN a[1] \div a[2] ELSE -((-a[1]) \div a[2])

\* mutant: the face width is ten times the pinion's tooth count
create_standard_gear_system_width_of_teeth(module, teeth_pinion, ratio, input_torque, input_speed) ==
    LET teeth_gear == Trunc(FMul(Num(teeth_pinion), ratio))
        geometry == GearGeometry(module, teeth_pinion, teeth_gear,
                                 RMul(Num(teeth_pinion), Num(10)), Num(20))
        power == RDiv(RDiv(RMul(RMul(RMul(input_torque, input_speed), Num(2)), Pi),
                           Num(60)), Num(1000))
        load == LoadConditions(input_torque, input_speed, power)
        material == MaterialProperties("SCM415", Num(280), Num(750), Num(206),
                                       Dec(3, 10), Num(7850))
    IN  <<geometry, load, material>>

create_standard_gear_system(module, teeth_pinion, ratio, input_torque, input_speed) ==
    LET teeth_gear == Trunc(FMul(Num(teeth_pinion), ratio))
        geometry == GearGeometry(module, teeth_pinion, teeth_gear,
                                 RMul(module, Num(10)), Num(20))
        power == RDiv(RDiv(RMul(RMul(RMul(input_torque, input_speed), Num(2)), Pi),
                           Num(60)), Num(1000))
        load == LoadConditions(input_torque, input_speed, power)
        material == MaterialProperties("SCM415", Num(280), Num(750), Num(206),
                                       Dec(3, 10), Num(7850))
    IN  <<geometry, load, material>>

(***************************************************************************)
(* State.                                                                  *)
(*   heap  the ISO6336Calculator objects alive, by identity                *)
(*   call  the last method call made by the client of Spec and FnSpec      *)
(*   ncalls  the number of method calls the client has made                *)
(*   task  the perform_strength_analysis calls of RunSpec                  *)
(***************************************************************************)
VARIABLES heap, call, ncalls, task

vars == <<heap, call, ncalls, task>>

NoCall == [op |-> "none", id |-> 0, args |-> <<>>, before |-> NewCalculator, raised |-> "none", ret |-> <<>>, report |-> <<>>]

\* the call record of a method call on calculator id with outcome o
Called(op, id, args, o) == [op |-> op, id |-> id, args |-> args, before |-> heap[id], raised |-> o.raised, ret |-> o.ret, report |-> <<>>]

(***************************************************************************)
(* The inputs a client draws its arguments from.                           *)
(***************************************************************************)
G_ok == GearGeometry(Num(2), 20, 100, Num(20), Num(20))
G_module0 == GearGeometry(Num(0), 20, 100, Num(0), Num(20))
G_teeth0 == GearGeometry(Num(2), 0, 100, Num(20), Num(20))
G_negative == GearGeometry(Num(-2), 20, 100, Num(20), Num(20))
G_width0 == GearGeometry(Num(2), 20, 100, Num(0), Num(20))
G_angle0 == GearGeometry(Num(2), 20, 100, Num(20), Num(0))
Load(torque) == LoadConditions(Num(torque), Num(2000), Num(4))
ForceInputs == {<<G_ok, Load(20)>>, <<G_ok, Load(0)>>, <<G_module0, Load(20)>>, <<G_teeth0, Load(20)>>, <<G_negative, Load(20)>>}
BendingInputs == {<<G_ok, 1000>>, <<G_width0, 1000>>}
ContactInputs == {<<G_ok, 1000>>, <<G_angle0, 1000>>}
Steel == MaterialProperties("SCM415", Num(280), Num(750), Num(206), Dec(3, 10), Num(7850))
Stresses == {<<Num(4), Num(8), Num(16)>>, <<Num(0), Num(8), Num(16)>>, <<Num(4), Num(0), Num(16)>>, <<Num(4), Num(8), Num(0)>>, <<Num(4), Num(-8), Num(16)>>}
FormInputs == {20, 120}
G_angle(pressure_angle) == GearGeometry(Num(2), 20, 100, Num(20), pressure_angle)
PressureAngles == {Num(0), Num(20), Num(25), Num(180), Num(-180)}
Steel_nu(poisson_ratio) == MaterialProperties("SCM415", Num(280), Num(750), Num(206), poisson_ratio, Num(7850))
PoissonRatios == {Dec(3, 10), Dec(5, 10)}
PositiveStresses == {Num(4), Num(8), Dec(95212, 10000), Dec(95213, 10000)}
CorrectionInputs == {0, 20}

(***************************************************************************)
(* Spec: a client holding one calculator calls its methods in any order    *)
(* with any arguments, and may replace it by a newly constructed one.      *)
(***************************************************************************)
Init ==
    /\ heap = (1 :> NewCalculator)
    /\ call = NoCall
    /\ ncalls = 0
    /\ task = <<>>

\* the calculator the client holds
Cur == CHOOSE id \in DOMAIN heap : TRUE

\* the client's call op(args) with outcome o
Do(op, args, o) ==
    /\ ncalls' = ncalls + 1
    /\ heap' = (Cur :> o.calc)
    /\ call' = Called(op, Cur, args, o)
    /\ UNCHANGED task

\* calculator = ISO6336Calculator(): the old object is dropped
Construct ==
    /\ Cur < MaxCalcs
    /\ heap' = ((Cur + 1) :> NewCalculator)
    /\ call' = [NoCall EXCEPT !.op = "construct", !.id = Cur + 1]
    /\ UNCHANGED <<ncalls, task>>

CallAddStep ==
    /\ ncalls < MaxCalls
    /\ \E result \in {Num(1000)} :
           \E o \in {Return(add_calculation_step(heap[Cur], "custom", "x = x",
                                                   <<V("x", result)>>, FStr("x = {}", <<result>>),
                                                   result, "-", ""), <<>>)} :
               Do("add_calculation_step", <<result>>, o)

CallTangentialForce ==
    /\ ncalls < MaxCalls
    /\ \E in \in ForceInputs :
           \E o \in {calculate_tangential_force(heap[Cur], in[1], in[2])} :
               Do("calculate_tangential_force", in, o)

CallFormFactor ==
    /\ ncalls < MaxCalls
    /\ \E teeth \in FormInputs :
           \E o \in {calculate_form_factor(heap[Cur], teeth)} :
               Do("calculate_form_factor", <<teeth>>, o)

CallStressCorrectionFactor ==
    /\ ncalls < MaxCalls
    /\ \E teeth \in CorrectionInputs :
           \E o \in {calculate_stress_correction_factor(heap[Cur], teeth)} :
               Do("calculate_stress_correction_factor", <<teeth>>, o)

CallBendingStress ==
    /\ ncalls < MaxCalls
    /\ \E in \in BendingInputs :
           \E o \in {calculate_bending_stress(heap[Cur], in[1], Load(20), Num(in[2]))} :
               Do("calculate_bending_stress", <<in[1], Load(20), Num(in[2])>>, o)

CallContactStress ==
    /\ ncalls < MaxCalls
    /\ \E in \in ContactInputs :
           \E o \in {calculate_contact_stress(heap[Cur], in[1], Steel, Num(in[2]))} :
               Do("calculate_contact_stress", <<in[1], Steel, Num(in[2])>>, o)

CallSafetyFactors ==
    /\ ncalls < MaxCalls
    /\ \E s \in Stresses :
           \E o \in {calculate_safety_factors(heap[Cur], s[1], s[2], s[3], Steel)} :
               Do("calculate_safety_factors", <<s[1], s[2], s[3], Steel>>, o)

CallReport ==
    /\ ncalls < MaxCalls
    /\ \E o \in {generate_calculation_report(heap[Cur])} :
           /\ ncalls' = ncalls + 1
           /\ heap' = (Cur :> o.calc)
           /\ call' = [Called("generate_calculation_report", Cur, <<>>, o) EXCEPT !.report = o.report]
           /\ UNCHANGED task

Next ==
    \/ Construct
    \/ CallAddStep
    \/ CallTangentialForce
    \/ CallFormFactor
    \/ CallStressCorrectionFactor
    \/ CallBendingStress
    \/ CallContactStress
    \/ CallSafetyFactors
    \/ CallReport

Spec == Init /\ [][Next]_vars

(***************************************************************************)
(* RunSpec: MaxTasks calls of DrAnalysisAgent.perform_strength_analysis,   *)
(* each with its own parameters.  A call is followed stage by stage; an    *)
(* exception of a stage ends the call (execute catches it).                *)
(***************************************************************************)
Tasks == 1..MaxTasks

\* the project parameters <<module, gear_ratio, input_torque>> of a call
RunParams == {<<2, 5, 20>>, <<2, 5, 0>>, <<2, 6, 20>>, <<2, 6, 0>>, <<2, 0, 20>>, <<0, 5, 20>>, <<2, 5, -20>>}

IdleTask == [pc |-> "idle", params |-> <<>>, geometry |-> <<>>, load |-> <<>>, material |-> <<>>, Ft |-> <<>>, sigma_F |-> <<>>, sigma_H |-> <<>>, SF |-> <<>>, raised |-> "none", detailed_report |-> <<>>, total_calculation_steps |-> 0]

RunInit ==
    /\ heap = <<>>
    /\ call = NoCall
    /\ ncalls = 0
    /\ task = [t \in Tasks |-> IdleTask]

\* the task after a stage with outcome o: its result stored in field and the
\* call moved on to pc next, or the call ended by the exception
AfterStage(t, o, field, next) ==
    IF o.raised # "none"
    THEN [task EXCEPT ![t].pc = "failed", ![t].raised = o.raised]
    ELSE [task EXCEPT ![t].pc = next, ![t][field] = o.ret]

\* mutant: the calculator is a module-level singleton: a call that finds one
\* already constructed goes on with its ledger and counter
Start_existing_calculator(t) ==
    /\ task[t].pc = "idle"
    /\ \E in \in RunParams :
           \E sys \in {create_standard_gear_system(Num(in[1]), 20, Num(in[2]), Num(in[3]), Num(2000))} :
               /\ heap' = (t :> (IF DOMAIN heap = {} THEN NewCalculator
                                 ELSE heap[CHOOSE id \in DOMAIN heap : TRUE])) @@ heap
               /\ task' = [task EXCEPT ![t].pc = "force", ![t].params = in,
                                       ![t].geometry = sys[1], ![t].load = sys[2],
                                       ![t].material = sys[3]]
    /\ UNCHANGED <<call, ncalls>>

\* the parameters are read, the calculator is constructed and the standard
\* gear system (20 teeth pinion) is created
Start(t) ==
    /\ task[t].pc = "idle"
    /\ \E in \in RunParams :
           \E sys \in {create_standard_gear_system(Num(in[1]), 20, Num(in[2]), Num(in[3]), Num(2000))} :
               /\ heap' = (t :> NewCalculator) @@ heap
               /\ task' = [task EXCEPT ![t].pc = "force", ![t].params = in,
                                       ![t].geometry = sys[1], ![t].load = sys[2],
                                       ![t].material = sys[3]]
    /\ UNCHANGED <<call, ncalls>>

\* mutant: the step list and the counter are one object shared by all
\* calculators (class attributes), so a stage writes to every calculator alive
RunForce_shared_ledger(t) ==
    /\ task[t].pc = "force"
    /\ \E o \in {calculate_tangential_force(heap[t], task[t].geometry, task[t].load)} :
           /\ heap' = [id \in DOMAIN heap |-> o.calc]
           /\ task' = AfterStage(t, o, "Ft", "bending")
    /\ UNCHANGED <<call, ncalls>>

RunForce(t) ==
    /\ task[t].pc = "force"
    /\ \E o \in {calculate_tangential_force(heap[t], task[t].geometry, task[t].load)} :
           /\ heap' = [heap EXCEPT ![t] = o.calc]
           /\ task' = AfterStage(t, o, "Ft", "bending")
    /\ UNCHANGED <<call, ncalls>>

RunBending(t) ==
    /\ task[t].pc = "bending"
    /\ \E o \in {calculate_bending_stress(heap[t], task[t].geometry, task[t].load, task[t].Ft[1])} :
           /\ heap' = [heap EXCEPT ![t] = o.calc]
           /\ task' = AfterStage(t, o, "sigma_F", "contact")
    /\ UNCHANGED <<call, ncalls>>

RunContact(t) ==
    /\ task[t].pc = "contact"
    /\ \E o \in {calculate_contact_stress(heap[t], task[t].geometry, task[t].material, task[t].Ft[1])} :
           /\ heap' = [heap EXCEPT ![t] = o.calc]
           /\ task' = AfterStage(t, o, "sigma_H", "safety")
    /\ UNCHANGED <<call, ncalls>>

RunSafety(t) ==
    /\ task[t].pc = "safety"
    /\ \E o \in {calculate_safety_factors(heap[t], task[t].sigma_F[1], task[t].sigma_F[2], task[t].sigma_H[1], task[t].material)} :
           /\ heap' = [heap EXCEPT ![t] = o.calc]
           /\ task' = AfterStage(t, o, "SF", "report")
    /\ UNCHANGED <<call, ncalls>>

\* the report is rendered and the analysis result assembled
RunReport(t) ==
    /\ task[t].pc = "report"
    /\ \E o \in {generate_calculation_report(heap[t])} :
           /\ heap' = [heap EXCEPT ![t] = o.calc]
           /\ task' = [task EXCEPT ![t].pc = "done",
                                   ![t].detailed_report = o.report,
                                   ![t].total_calculation_steps = Len(o.calc.calculation_steps)]
    /\ UNCHANGED <<call, ncalls>>

RunNext ==
    \E t \in Tasks :
        \/ Start(t)
        \/ RunForce(t)
        \/ RunBending(t)
        \/ RunContact(t)
        \/ RunSafety(t)
        \/ RunReport(t)

RunSpec == RunInit /\ [][RunNext]_vars

(***************************************************************************)
(* FnSpec: single method calls, each on a newly constructed calculator,    *)
(* over a range of arguments.                                              *)
(***************************************************************************)
FnCall(op, args, o) ==
    /\ heap' = (1 :> o.calc)
    /\ call' = [op |-> op, id |-> 1, args |-> args, before |-> NewCalculator, raised |-> o.raised, ret |-> o.ret, report |-> <<>>]
    /\ UNCHANGED <<ncalls, task>>

FnFormFactor ==
    \E teeth \in 0..MaxTeeth :
        \E o \in {calculate_form_factor(NewCalculator, teeth)} :
            FnCall("calculate_form_factor", <<teeth>>, o)

FnStressCorrectionFactor ==
    \E teeth \in -1..MaxTeeth :
        \E o \in {calculate_stress_correction_factor(NewCalculator, teeth)} :
            FnCall("calculate_stress_correction_factor", <<teeth>>, o)

FnContactStress ==
    \E pressure_angle \in PressureAngles, poisson_ratio \in PoissonRatios :
        \E o \in {calculate_contact_stress(NewCalculator, G_angle(pressure_angle), Steel_nu(poisson_ratio), Num(1000))} :
            FnCall("calculate_contact_stress", <<G_angle(pressure_angle), Steel_nu(poisson_ratio), Num(1000)>>, o)

FnSafetyFactors ==
    \E sigma_F_pinion \in PositiveStresses, sigma_F_gear \in PositiveStresses, sigma_H \in PositiveStresses :
        \E o \in {calculate_safety_factors(NewCalculator, sigma_F_pinion, sigma_F_gear, sigma_H, Steel)} :
            FnCall("calculate_safety_factors", <<sigma_F_pinion, sigma_F_gear, sigma_H, Steel>>, o)

\* the arguments of create_standard_gear_system
FactoryModules == {Num(2), Dec(7, 10), Num(0), Num(-2)}
FactoryTeeth == {20, 12, 6, 3, 0}
FactoryRatios == {Num(5), Dec(435, 100), Dec(26666, 10000), Dec(36665, 10000), Dec(4, 100), Dec(83333, 1000000), Num(0), Dec(-5, 10)}
FactoryTorques == {Num(20), Num(0), Num(-20)}
FactorySpeeds == {Num(2000), Num(0)}

FnCreateSystem ==
    \E module \in FactoryModules, teeth_pinion \in FactoryTeeth, ratio \in FactoryRatios, input_torque \in FactoryTorques, input_speed \in FactorySpeeds :
        \E sys \in {create_standard_gear_system(module, teeth_pinion, ratio, input_torque, input_speed)} :
            /\ heap' = (1 :> NewCalculator)
            /\ call' = [op |-> "create_standard_gear_system", id |-> 1, args |-> <<module, teeth_pinion, ratio, input_torque, input_speed>>, before |-> NewCalculator, raised |-> "none", ret |-> sys, report |-> <<>>]
            /\ UNCHANGED <<ncalls, task>>

FnNext ==
    \/ FnCreateSystem
    \/ FnSafetyFactors
    \/ FnFormFactor
    \/ FnStressCorrectionFactor
    \/ FnContactStress

FnSpec == Init /\ [][FnNext]_vars

\* the calculator a perform_strength_analysis call with parameters in leaves
\* when it executes alone: the stages in order on a new calculator, up to the
\* first that raises
AloneRun(in) ==
    Only({Only({IF o1.raised # "none" THEN o1.calc
                ELSE Only({IF o2.raised # "none" THEN o2.calc
                           ELSE Only({IF o3.raised # "none" THEN o3.calc
                                      ELSE calculate_safety_factors(o3.calc, o2.ret[1], o2.ret[2], o3.ret[1], sys[3]).calc
                                      : o3 \in {calculate_contact_stress(o2.calc, sys[1], sys[3], o1.ret[1])}})
                           : o2 \in {calculate_bending_stress(o1.calc, sys[1], sys[2], o1.ret[1])}})
                : o1 \in {calculate_tangential_force(NewCalculator, sys[1], sys[2])}})
          : sys \in {create_standard_gear_system(Num(in[1]), 20, Num(in[2]), Num(in[3]), Num(2000))}})

(***************************************************************************)
(* ShareSpec: two runs, each on its own thread, record their steps on one  *)
(* shared calculator.  add_calculation_step is not atomic: a thread may    *)
(* be preempted between reading the counter, storing it, reading it again  *)
(* for the step's number, and appending the step.                          *)
(*   task[t].pc  where thread t is: "idle", inside add_calculation_step    *)
(*               ("load", "store", "number", "append"), or "done"          *)
(*   task[t].drafts  the steps the run records, task[t].next the one due   *)
(*   task[t].tmp, task[t].number  the thread's local values                *)
(*   task[t].preempted  another thread has run while t was inside          *)
(*               add_calculation_step                                      *)
(*   ncalls  the number of add_calculation_step calls completed            *)
(***************************************************************************)
Sharers == {1, 2}

\* the project parameters <<module, gear_ratio, input_torque>> of a sharing run
ShareParams == {<<2, 5, 20>>, <<3, 5, 20>>}

ShareInit ==
    /\ heap = (1 :> NewCalculator)
    /\ call = NoCall
    /\ ncalls = 0
    /\ task = [t \in Sharers |-> [pc |-> "idle", params |-> <<>>, drafts |-> <<>>, next |-> 1, tmp |-> 0, number |-> 0, preempted |-> FALSE]]

\* the tasks after a step of thread t: every other thread that is inside
\* add_calculation_step has been preempted
Preempting(t, after) ==
    [u \in Sharers |->
        IF u # t /\ task[u].pc \in {"store", "number", "append"}
        THEN [after[u] EXCEPT !.preempted = TRUE]
        ELSE after[u]]

\* the run of thread t begins: its stages will record the first MaxRecords
\* steps of its pipeline, whose contents depend on its parameters only
ShareStart(t) ==
    /\ task[t].pc = "idle"
    /\ \E in \in ShareParams :
           \E alone \in {AloneRun(in)} :
               task' = Preempting(t, [task EXCEPT ![t].pc = "load", ![t].params = in,
                                                  ![t].drafts = SubSeq(alone.calculation_steps, 1, MaxRecords)])
    /\ UNCHANGED <<heap, call, ncalls>>

\* self.step_counter += 1: the counter is read
AddLoad(t) ==
    /\ task[t].pc = "load"
    /\ task' = Preempting(t, [task EXCEPT ![t].pc = "store", ![t].tmp = heap[1].step_counter])
    /\ UNCHANGED <<heap, call, ncalls>>

\* self.step_counter += 1: the incremented value is stored
AddStore(t) ==
    /\ task[t].pc = "store"
    /\ heap' = [heap EXCEPT ![1].step_counter = task[t].tmp + 1]
    /\ task' = Preempting(t, [task EXCEPT ![t].pc = "number"])
    /\ UNCHANGED <<call, ncalls>>

\* mutant: the step is numbered with the value read before the increment
AddNumber_before_increment(t) ==
    /\ task[t].pc = "number"
    /\ task' = Preempting(t, [task EXCEPT ![t].pc = "append", ![t].number = task[t].tmp])
    /\ UNCHANGED <<heap, call, ncalls>>

\* step = CalculationStep(step_number=self.step_counter, ...): the counter is
\* read for the step's number
AddNumber(t) ==
    /\ task[t].pc = "number"
    /\ task' = Preempting(t, [task EXCEPT ![t].pc = "append", ![t].number = heap[1].step_counter])
    /\ UNCHANGED <<heap, call, ncalls>>

\* self.calculation_steps.append(step); the call returns and the run goes on
\* to its next recording, if any
AddAppend(t) ==
    /\ task[t].pc = "append"
    /\ heap' = [heap EXCEPT ![1].calculation_steps =
                    Append(@, [task[t].drafts[task[t].next] EXCEPT !.step_number = task[t].number])]
    /\ task' = Preempting(t, [task EXCEPT ![t].pc = IF task[t].next < Len(task[t].drafts) THEN "load" ELSE "done",
                                          ![t].next = @ + 1])
    /\ ncalls' = ncalls + 1
    /\ UNCHANGED call

ShareNext ==
    \E t \in Sharers :
        \/ ShareStart(t)
        \/ AddLoad(t)
        \/ AddStore(t)
        \/ AddNumber(t)
        \/ AddAppend(t)

ShareSpec == ShareInit /\ [][ShareNext]_vars

(***************************************************************************)
(* GeometrySpec: a client holding one GearGeometry reassigns its stored    *)
(* fields (the dataclass is not frozen) and reads its properties.          *)
(* heap[1] is the GearGeometry object, call the client's last operation.   *)
(***************************************************************************)
GeometryModules == {Num(2), Dec(25, 10), Num(0)}
GeometryTeeth == {0, 17, 20, 100}
GeometryWidths == {Num(20), Num(25)}
GeometryAngles == {Num(20), Num(25)}

\* the assignments geometry.field = value the client makes
GeometryAssignments ==
    ({"module"} \X GeometryModules) \cup ({"teeth_pinion", "teeth_gear"} \X GeometryTeeth)
        \cup ({"face_width"} \X GeometryWidths) \cup ({"pressure_angle"} \X GeometryAngles)

GeometryInit ==
    /\ heap = (1 :> G_ok)
    /\ call = NoCall
    /\ ncalls = 0
    /\ task = <<>>

\* geometry.field = value
SetAttr ==
    /\ \E a \in GeometryAssignments :
           /\ heap' = (1 :> [heap[1] EXCEPT ![a[1]] = a[2]])
           /\ call' = [NoCall EXCEPT !.op = "setattr", !.id = 1, !.args = a]
    /\ UNCHANGED <<ncalls, task>>

\* the read of property name with outcome o
Get(name, o) ==
    /\ call' = [NoCall EXCEPT !.op = name, !.id = 1, !.raised = o.raised, !.ret = o.ret]
    /\ UNCHANGED <<heap, ncalls, task>>

\* geometry.gear_ratio: the division raises for a pinion without teeth
GetGearRatio ==
    \E o \in {IF heap[1].teeth_pinion = 0 THEN Raise(NewCalculator, "ZeroDivisionError")
              ELSE Return(NewCalculator, <<gear_ratio(heap[1])>>)} :
        Get("gear_ratio", o)

GetPitchDiameterPinion ==
    \E o \in {Return(NewCalculator, <<pitch_diameter_pinion(heap[1])>>)} :
        Get("pitch_diameter_pinion", o)

GetPitchDiameterGear ==
    \E o \in {Return(NewCalculator, <<pitch_diameter_gear(heap[1])>>)} :
        Get("pitch_diameter_gear", o)

GetCenterDistance ==
    \E o \in {Return(NewCalculator, <<center_distance(heap[1])>>)} :
        Get("center_distance", o)

GeometryNext ==
    \/ SetAttr
    \/ GetGearRatio
    \/ GetPitchDiameterPinion
    \/ GetPitchDiameterGear
    \/ GetCenterDistance

GeometrySpec == GeometryInit /\ [][GeometryNext]_vars

(***************************************************************************)
(* Properties                                                              *)
(***************************************************************************)
IsPrefix(s, t) == Len(s) <= Len(t) /\ SubSeq(t, 1, Len(s)) = s

\* the steps of a ledger are numbered 1, 2, ... and the counter is their number
Numbered(calc) ==
    /\ calc.step_counter = Len(calc.calculation_steps)
    /\ \A k \in 1..Len(calc.calculation_steps) :
           calc.calculation_steps[k].step_number = k

\* the descriptions of the steps of a ledger
Descriptions(steps) == [k \in 1..Len(steps) |-> steps[k].description]

\* the last call was the method op
Calling(op) == call.op = op

\* the calculator of the last call, as the call left it
After == heap[call.id]

\* the steps the last call appended
Appended ==
    SubSeq(After.calculation_steps, Len(call.before.calculation_steps) + 1,
           Len(After.calculation_steps))

\* C1: after any sequence of method calls the step at position k of
\* calculation_steps has step_number k, and step_counter is the number of
\* recorded steps.
C1_StepNumbersContiguous == \A id \in DOMAIN heap : Numbered(heap[id])

\* a ledger of several calls: a stage has recorded steps after earlier ones
C1_Witness ==
    /\ Calling("calculate_safety_factors")
    /\ call.raised = "none"
    /\ Len(call.before.calculation_steps) >= 2
    /\ Len(After.calculation_steps) >= 5

\* C2: the ledger of a calculator is empty when the calculator is constructed,
\* and every operation leaves the ledger it found as a prefix of the ledger it
\* leaves; only a newly constructed calculator starts again from the empty ledger.
C2_LedgerAppendOnly ==
    /\ \A id \in DOMAIN heap : call.op = "none" => heap[id] = NewCalculator
    /\ [][/\ \A id \in DOMAIN heap \cap DOMAIN heap' :
                 IsPrefix(heap[id].calculation_steps, heap'[id].calculation_steps)
          /\ \A id \in DOMAIN heap' \ DOMAIN heap :
                 /\ heap'[id].calculation_steps = <<>>
                 /\ \A old \in DOMAIN heap : id > old]_vars

\* a call has appended to a ledger that already held steps
C2_Witness ==
    /\ call.op \notin {"none", "construct"}
    /\ call.before.calculation_steps # <<>>
    /\ Len(After.calculation_steps) > Len(call.before.calculation_steps)

\* the tooth count a form factor or stress correction step was recorded for
StepTeeth(step) == step.variables[1].value

\* the ledger of a completed run of geometry g: the fifteen steps in order, the
\* factor steps of the pinion before those of the gear
PipelineLedger == <<"r1", "Ft", "Y_Fa", "Y_Sa", "sigmaF_pinion", "Y_Fa", "Y_Sa", "sigmaF_gear", "Z_H", "Z_E", "Z_eps", "sigmaH", "SF_pinion", "SF_gear", "SH">>

\* the number of ledger steps with which a run enters a stage
StepsAt(pc) ==
    CASE pc = "force" -> 0
      [] pc = "bending" -> 2
      [] pc = "contact" -> 8
      [] pc = "safety" -> 12
      [] pc = "report" -> 15
      [] pc = "done" -> 15

\* C3: a run executes the stages only in the order force, bending (pinion,
\* gear), contact (zone, elastic, ratio, Hertz), safety (pinion, gear, contact):
\* its ledger is at every moment a prefix of the fifteen steps in that order,
\* each stage starts from exactly the steps of the stages before it, and a
\* completed run leaves exactly the fifteen steps.
C3_StrictLinearPipeline ==
    \A t \in DOMAIN heap :
        LET steps == heap[t].calculation_steps
            g == task[t].geometry
        IN  /\ IsPrefix(Descriptions(steps), PipelineLedger)
            /\ task[t].pc # "failed" => Len(steps) = StepsAt(task[t].pc)
            /\ task[t].pc = "failed" => Len(steps) < 15
            /\ \A k \in 1..Len(steps) :
                   /\ k \in {3, 4} => StepTeeth(steps[k]) = Num(g.teeth_pinion)
                   /\ k \in {6, 7} => StepTeeth(steps[k]) = Num(g.teeth_gear)
            /\ task[t].pc = "done" => task[t].total_calculation_steps = 15

\* a run has completed
C3_Witness ==
    \E t \in DOMAIN heap :
        /\ task[t].pc = "done"
        /\ Len(heap[t].calculation_steps) = 15

\* the steps calculate_safety_factors records before its first zero stress
SafetyStepsBeforeZero(args) ==
    IF IsZero(args[1]) THEN 0 ELSE IF IsZero(args[2]) THEN 1 ELSE 2

\* C4: when a stage raises, the steps recorded before the failure (by earlier
\* calls, and by the failing call before its failing operation) stay in the
\* ledger with their numbers and the counter is the number of steps; the next
\* recording continues the numbering.
C4_FailureKeepsLedger ==
    /\ [](call.raised # "none" =>
            /\ IsPrefix(call.before.calculation_steps, After.calculation_steps)
            /\ Numbered(After)
            /\ Calling("calculate_tangential_force") =>
                   Descriptions(Appended) = <<"r1">>
            /\ Calling("calculate_safety_factors") =>
                   Descriptions(Appended) =
                       SubSeq(<<"SF_pinion", "SF_gear">>, 1, SafetyStepsBeforeZero(call.args)))
    /\ [][(call.raised # "none" /\ call'.id = call.id
             /\ Len(heap'[call.id].calculation_steps) > Len(heap[call.id].calculation_steps))
          => /\ IsPrefix(heap[call.id].calculation_steps, heap'[call.id].calculation_steps)
             /\ heap'[call.id].calculation_steps[Len(heap[call.id].calculation_steps) + 1].step_number
                    = Len(heap[call.id].calculation_steps) + 1]_vars

\* a stage has failed after recording a step of its own, on a ledger that held
\* the steps of an earlier stage
C4_Witness ==
    /\ call.raised # "none"
    /\ Calling("calculate_safety_factors")
    /\ Len(Appended) >= 1
    /\ Len(call.before.calculation_steps) >= 2

\* C5: calculate_tangential_force raises whenever pitch_diameter_pinion is zero:
\* it returns no force and records no force step.
C5_ZeroPitchDiameterRaises ==
    (Calling("calculate_tangential_force") /\ IsZero(pitch_diameter_pinion(call.args[1])))
    => /\ call.raised = "ZeroDivisionError"
       /\ call.ret = <<>>
       /\ \A k \in 1..Len(Appended) : Appended[k].description # "Ft"

\* calculate_tangential_force has been called with a zero module
C5_Witness ==
    /\ Calling("calculate_tangential_force")
    /\ IsZero(call.args[1].module)
    /\ call.raised # "none"

\* C6: in calculate_safety_factors each division is guarded: a zero or negative
\* sigma_F_pinion, sigma_F_gear or sigma_H makes the call raise, and no negative
\* safety factor is returned or recorded.
C6_SafetyDivisionsGuarded ==
    Calling("calculate_safety_factors") =>
        /\ (\E i \in 1..3 : ~IsPos(call.args[i])) =>
               (call.raised # "none" /\ call.ret = <<>>)
        /\ \A k \in 1..Len(Appended) : ~IsNeg(Appended[k].result)

\* C7: a zero or negative module, tooth count, face width or input torque makes
\* the first stage that consumes it raise: calculate_tangential_force returns
\* no force for a non-positive module, teeth_pinion or input_torque, and
\* calculate_bending_stress no stress for a non-positive face_width.
C7_InvalidInputRaises ==
    /\ Calling("calculate_tangential_force") =>
           ((\/ ~IsPos(call.args[1].module)
             \/ call.args[1].teeth_pinion <= 0
             \/ ~IsPos(call.args[2].input_torque))
            => (call.raised # "none" /\ call.ret = <<>>))
    /\ Calling("calculate_bending_stress") =>
           (~IsPos(call.args[1].face_width)
            => (call.raised # "none" /\ call.ret = <<>>))

\* a run with zero input torque and an otherwise valid geometry
ZeroTorqueRun(t) ==
    /\ task[t].pc # "idle"
    /\ task[t].params[3] = 0
    /\ task[t].params[1] > 0
    /\ task[t].geometry.teeth_gear >= 1

\* C8: with input_torque = 0 and otherwise valid geometry the run yields Ft = 0
\* and both bending stresses 0, and the safety-factor stage raises for the zero
\* stress instead of returning a safety factor; the twelve steps of the force,
\* bending and contact stages stay in the ledger and no safety-factor step is
\* recorded.
C8_ZeroTorqueRaisesAtSafety ==
    \A t \in DOMAIN heap :
        ZeroTorqueRun(t) =>
            /\ task[t].pc \in {"force", "bending", "contact", "safety", "failed"}
            /\ task[t].pc \in {"bending", "contact", "safety"} => task[t].Ft = <<Num(0)>>
            /\ task[t].pc \in {"contact", "safety"} => task[t].sigma_F = <<Num(0), Num(0)>>
            /\ task[t].pc = "failed" =>
                   /\ task[t].raised = "ZeroDivisionError"
                   /\ task[t].Ft = <<Num(0)>>
                   /\ task[t].sigma_F = <<Num(0), Num(0)>>
                   /\ task[t].SF = <<>>
                   /\ Descriptions(heap[t].calculation_steps) = SubSeq(PipelineLedger, 1, 12)
                   /\ heap[t].calculation_steps[2].result = Num(0)
                   /\ heap[t].calculation_steps[5].result = Num(0)
                   /\ heap[t].calculation_steps[8].result = Num(0)

\* a run with zero torque has failed in the safety-factor stage
C8_Witness ==
    \E t \in DOMAIN heap :
        /\ ZeroTorqueRun(t)
        /\ task[t].pc = "failed"
        /\ Len(heap[t].calculation_steps) = 12

\* C9: for every geometry with pitch_diameter_pinion > 0,
\* calculate_tangential_force returns input_torque x 1000 / (pitch_diameter_pinion / 2)
\* and records exactly two steps, the radius (r1 = module x teeth_pinion / 2) and
\* then the force; module 2, teeth_pinion 20, torque 20 gives r1 = 20, Ft = 1000.
C9_TangentialForce ==
    (Calling("calculate_tangential_force") /\ IsPos(pitch_diameter_pinion(call.args[1])))
    => LET g == call.args[1]
           T == call.args[2].input_torque
           r1 == RDiv(RMul(g.module, Num(g.teeth_pinion)), Num(2))
           Ft == RDiv(RMul(T, Num(1000)), RDiv(pitch_diameter_pinion(g), Num(2)))
       IN  /\ call.raised = "none"
           /\ call.ret = <<Ft>>
           /\ Descriptions(Appended) = <<"r1", "Ft">>
           /\ Appended[1].result = r1
           /\ Appended[2].result = Ft
           /\ (g.module = Num(2) /\ g.teeth_pinion = 20 /\ T = Num(20))
                  => (Appended[1].result = Num(20) /\ call.ret = <<Num(1000)>>)

\* the force of module 2, 20 teeth and 20 Nm has been computed
C9_Witness ==
    /\ Calling("calculate_tangential_force")
    /\ call.args[1] = G_ok
    /\ call.args[2].input_torque = Num(20)
    /\ call.ret = <<Num(1000)>>

\* the band formulas of the form factor
Band1(z) == RAdd(Dec(18, 100), RDiv(RMul(Dec(15, 100), Num(z)), Num(12)))
Band2(z) == RSub(Dec(154, 1000), RDiv(Dec(912, 1000), Num(z)))
Band3(z) == RSub(Dec(175, 1000), RDiv(Dec(841, 1000), Num(z)))
Band4(z) == RSub(Dec(175, 1000), RDiv(Dec(841, 10), Num(z)))

\* C10: calculate_form_factor(z) returns without error for every z >= 1, with
\* the value of exactly one band: Band1 for z < 12, Band2 for 12 <= z <= 25,
\* Band3 for 25 < z <= 100, Band4 for z > 100; the value jumps at 11->12,
\* 25->26 and 100->101 (it is not the value the band below gives there), and
\* Y_Fa(20) = 0.1084.
C10_FormFactorBands ==
    (Calling("calculate_form_factor") /\ call.args[1] >= 1)
    => LET z == call.args[1]
       IN  /\ call.raised = "none"
           /\ z < 12 => call.ret = <<Band1(z)>>
           /\ (12 <= z /\ z <= 25) => call.ret = <<Band2(z)>>
           /\ (25 < z /\ z <= 100) => call.ret = <<Band3(z)>>
           /\ z > 100 => call.ret = <<Band4(z)>>
           /\ z = 12 => call.ret # <<Band1(z)>>
           /\ z = 26 => call.ret # <<Band2(z)>>
           /\ z = 101 => call.ret # <<Band3(z)>>
           /\ z = 20 => call.ret = <<Dec(1084, 10000)>>
           /\ Appended[1].result = call.ret[1]

\* the form factor has been evaluated just above the last band boundary
C10_Witness ==
    /\ Calling("calculate_form_factor")
    /\ call.args[1] = 101
    /\ call.raised = "none"

\* the two branches of the stress correction factor
Y_Sa_upto25(z) == RAdd(Dec(12, 10), RMul(Dec(13, 100), Ln(Num(z))))
Y_Sa_above25(z) == RAdd(Dec(15, 10), RMul(Dec(25, 100), Ln(RDiv(Num(z), Num(25)))))

\* C11: calculate_stress_correction_factor(z) raises for every z <= 0 and
\* records no step then; for z >= 1 it returns 1.2 + 0.13 ln(z) exactly when
\* z <= 25 and 1.5 + 0.25 ln(z/25) exactly when z > 25, and records one step.
C11_StressCorrectionDomain ==
    Calling("calculate_stress_correction_factor") =>
        LET z == call.args[1]
        IN  /\ z <= 0 => (call.raised = "ValueError" /\ call.ret = <<>> /\ Appended = <<>>)
            /\ z >= 1 =>
                   /\ call.raised = "none"
                   /\ Len(Appended) = 1
                   /\ Appended[1].description = "Y_Sa"
                   /\ StepTeeth(Appended[1]) = Num(z)
                   /\ Appended[1].result = call.ret[1]
                   /\ z <= 25 => call.ret = <<Y_Sa_upto25(z)>>
                   /\ z > 25 => call.ret = <<Y_Sa_above25(z)>>
                   /\ z = 25 => call.ret # <<Y_Sa_above25(z)>>
                   /\ z = 26 => call.ret # <<Y_Sa_upto25(z)>>

\* the factor has been asked for a tooth count of zero, and the call raised
C11_Witness ==
    /\ Calling("calculate_stress_correction_factor")
    /\ call.args[1] = 0
    /\ call.raised = "ValueError"
    /\ After.calculation_steps = <<>>

\* the value a step's variables snapshot holds under a name
VarOf(step, name) ==
    step.variables[CHOOSE i \in 1..Len(step.variables) : step.variables[i].name = name].value

\* the stress correction factor of z >= 1 teeth
Y_Sa_of(z) == IF z <= 25 THEN Y_Sa_upto25(z) ELSE Y_Sa_above25(z)

\* sigmaF = Ft x Y_Fa(z) x Y_Sa(z) / (face_width x module)
SigmaF_of(g, Ft, z) ==
    RDiv(RMul(RMul(Ft, Y_Fa(z)), Y_Sa_of(z)), RMul(g.face_width, g.module))

\* the three steps of one member start at position k of the appended steps:
\* Y_Fa, Y_Sa and sigmaF of z teeth, the sigmaF snapshot holding these factors
MemberSteps(k, g, Ft, z, description) ==
    /\ Appended[k].description = "Y_Fa"
    /\ StepTeeth(Appended[k]) = Num(z)
    /\ Appended[k].result = Y_Fa(z)
    /\ Appended[k + 1].description = "Y_Sa"
    /\ StepTeeth(Appended[k + 1]) = Num(z)
    /\ Appended[k + 1].result = Y_Sa_of(z)
    /\ Appended[k + 2].description = description
    /\ VarOf(Appended[k + 2], "Ft") = Ft
    /\ VarOf(Appended[k + 2], "Y_Fa") = Y_Fa(z)
    /\ VarOf(Appended[k + 2], "Y_Sa") = Y_Sa_of(z)
    /\ VarOf(Appended[k + 2], "b") = g.face_width
    /\ VarOf(Appended[k + 2], "mn") = g.module
    /\ Appended[k + 2].result = SigmaF_of(g, Ft, z)

\* C12: calculate_bending_stress computes sigmaF = Ft x Y_Fa(z) x Y_Sa(z) /
\* (face_width x module) for the pinion (z = teeth_pinion) and then for the gear
\* (z = teeth_gear), returns (sigmaF_pinion, sigmaF_gear), and records for each
\* member its own three steps (Y_Fa, Y_Sa, sigmaF) whose snapshots hold that
\* member's tooth count and factors, the pinion's steps before the gear's.
C12_BendingPerMember ==
    (Calling("calculate_bending_stress") /\ call.raised = "none") =>
        LET g == call.args[1]
            Ft == call.args[3]
        IN  /\ call.ret = <<SigmaF_of(g, Ft, g.teeth_pinion), SigmaF_of(g, Ft, g.teeth_gear)>>
            /\ Len(Appended) = 6
            /\ MemberSteps(1, g, Ft, g.teeth_pinion, "sigmaF_pinion")
            /\ MemberSteps(4, g, Ft, g.teeth_gear, "sigmaF_gear")

\* the bending stresses of a 20 teeth pinion and a 100 teeth gear have been
\* computed on a ledger that already held steps
C12_Witness ==
    /\ Calling("calculate_bending_stress")
    /\ call.raised = "none"
    /\ call.args[1].teeth_pinion = 20
    /\ call.args[1].teeth_gear = 100
    /\ call.before.calculation_steps # <<>>
    /\ call.ret[1] # call.ret[2]

\* C13 as stated: a successful calculate_contact_stress records the four
\* intermediate quantities of the Hertz formula (Z_H, Z_E, Z_eps and the square
\* root term) and the result sigmaH as separate steps, five in all, the
\* intermediates first and sigmaH last.
C13_FourIntermediatesAndResult ==
    (Calling("calculate_contact_stress") /\ call.raised = "none") =>
        /\ Len(Appended) = 5
        /\ \A k \in 1..4 : Appended[k].description # "sigmaH"
        /\ Appended[5].description = "sigmaH"

\* C13 amended: a successful calculate_contact_stress records four steps: the
\* three intermediate factors Z_H, Z_E and Z_eps first and the result sigmaH
\* last; the square root term has no step of its own, its operands are in
\* sigmaH's snapshot, which also holds the values the three factor steps
\* recorded; sigmaH's result is the value returned.
C13_ContactStepsRecorded ==
    (Calling("calculate_contact_stress") /\ call.raised = "none") =>
        /\ Descriptions(Appended) = <<"Z_H", "Z_E", "Z_eps", "sigmaH">>
        /\ \A k \in 1..4 : Appended[k].step_number = call.before.step_counter + k
        /\ VarOf(Appended[4], "Z_H") = Appended[1].result
        /\ VarOf(Appended[4], "Z_E") = Appended[2].result
        /\ VarOf(Appended[4], "Z_eps") = Appended[3].result
        /\ VarOf(Appended[4], "Ft") = call.args[3]
        /\ VarOf(Appended[4], "u") = gear_ratio(call.args[1])
        /\ VarOf(Appended[4], "b") = call.args[1].face_width
        /\ VarOf(Appended[4], "d1") = pitch_diameter_pinion(call.args[1])
        /\ Appended[4].result = call.ret[1]

\* a contact stress has been computed on a ledger that already held steps
C13_Witness ==
    /\ Calling("calculate_contact_stress")
    /\ call.raised = "none"
    /\ call.before.calculation_steps # <<>>
    /\ Len(Appended) = 4
    /\ IsPos(call.ret[1])

\* the pressure angle is degenerate: a whole multiple of 180 degrees, where the
\* sine is zero
Degenerate(pressure_angle) == pressure_angle[2] = 1 /\ pressure_angle[1] % 180 = 0

\* C14: calculate_contact_stress raises, returning no contact stress and
\* recording no Z_H step, whenever the pressure angle is degenerate (its sine
\* is zero).
C14_DegenerateAngleRaises ==
    (Calling("calculate_contact_stress") /\ Degenerate(call.args[1].pressure_angle)) =>
        /\ call.raised # "none"
        /\ call.ret = <<>>
        /\ \A k \in 1..Len(Appended) : Appended[k].description # "Z_H"

\* Z_E = sqrt(1 / (pi x 2 x (1 - nu^2) / E))
Z_E_of(nu, E) ==
    Sqrt(RDiv(Num(1), RMul(Pi, RDiv(RMul(Num(2), RSub(Num(1), RMul(nu, nu))), E))))

\* C15: the elastic coefficient Z_E that calculate_contact_stress records is
\* sqrt(1 / (pi x 2 x (1 - nu^2) / E)) with nu the Poisson ratio and E the
\* elastic modulus of the material supplied, and the Z_eps factor is sqrt(0.9)
\* for every input.
C15_ElasticCoefficientOfMaterial ==
    (Calling("calculate_contact_stress") /\ call.raised = "none") =>
        /\ Appended[2].description = "Z_E"
        /\ Appended[2].result = Z_E_of(call.args[2].poisson_ratio, call.args[2].elastic_modulus)
        /\ VarOf(Appended[4], "Z_E") = Appended[2].result
        /\ Appended[3].description = "Z_eps"
        /\ Appended[3].result = Sqrt(Dec(9, 10))

\* the run of task t has positive stresses and its safety-factor stage is over
SafetyDone(t) ==
    /\ task[t].pc \in {"report", "done"}
    /\ IsPos(task[t].sigma_F[1]) /\ IsPos(task[t].sigma_F[2]) /\ IsPos(task[t].sigma_H[1])

\* C16: for positive stresses calculate_safety_factors returns exactly
\* (allowable_bending / sigmaF_pinion, allowable_bending / sigmaF_gear,
\* allowable_contact / sigmaH) and records exactly three steps in that order;
\* they are the last steps of the run: nothing is recorded after them.
C16_SafetyFactorsTerminal ==
    \A t \in DOMAIN heap :
        SafetyDone(t) =>
            LET m == task[t].material
                steps == heap[t].calculation_steps
                SF == <<FDiv(m.allowable_bending, task[t].sigma_F[1]),
                        FDiv(m.allowable_bending, task[t].sigma_F[2]),
                        FDiv(m.allowable_contact, task[t].sigma_H[1])>>
            IN  /\ task[t].SF = SF
                /\ Len(steps) = 15
                /\ Descriptions(SubSeq(steps, 13, 15)) = <<"SF_pinion", "SF_gear", "SH">>
                /\ Descriptions(SubSeq(steps, 1, 12)) = SubSeq(PipelineLedger, 1, 12)
                /\ \A i \in 1..3 : steps[12 + i].result = SF[i]
                /\ VarOf(steps[13], "sigmaF") = task[t].sigma_F[1]
                /\ VarOf(steps[14], "sigmaF") = task[t].sigma_F[2]
                /\ VarOf(steps[15], "sigmaH") = task[t].sigma_H[1]
                /\ VarOf(steps[13], "sigmaF,lim") = m.allowable_bending
                /\ VarOf(steps[14], "sigmaF,lim") = m.allowable_bending
                /\ VarOf(steps[15], "sigmaH,lim") = m.allowable_contact

\* a run with positive stresses has completed, report rendered
C16_Witness ==
    \E t \in DOMAIN heap :
        /\ SafetyDone(t)
        /\ task[t].pc = "done"
        /\ task[t].SF # <<>>
        /\ task[t].detailed_report # <<>>

\* two successive calls of calculate_safety_factors, both returned
TwoSafetyCalls ==
    /\ call.op = "calculate_safety_factors" /\ call.raised = "none"
    /\ call'.op = "calculate_safety_factors" /\ call'.raised = "none"
    /\ call'.args[4] = call.args[4]

SectionLen(step) == 6 + Len(step.variables) + (IF step.notes # "" THEN 1 ELSE 0)

\* the report line at which the section of step k begins
RECURSIVE SectionStart(_, _)
SectionStart(steps, k) ==
    IF k = 1 THEN 2 ELSE SectionStart(steps, k - 1) + SectionLen(steps[k - 1])

\* the lines of report rep from line pos on are the section of step: a heading
\* with the step's number and description, its formula, every variable, its
\* substitution string, its result with unit, and its notes when not empty
SectionAt(rep, pos, step) ==
    LET n == Len(step.variables)
    IN  /\ pos + SectionLen(step) - 1 <= Len(rep)
        /\ rep[pos].nums = <<Num(step.step_number)>>
        /\ rep[pos].strs = <<step.description>>
        /\ rep[pos + 1].strs = <<step.formula>>
        /\ \A i \in 1..n :
               /\ rep[pos + 2 + i].strs = <<step.variables[i].name>>
               /\ rep[pos + 2 + i].nums =
                      <<IF step.variables[i].is_float THEN Fmt(step.variables[i].value, 3)
                        ELSE step.variables[i].value>>
        /\ rep[pos + 3 + n].strs = <<step.calculation.text>>
        /\ rep[pos + 3 + n].nums = step.calculation.args
        /\ rep[pos + 4 + n].nums = <<Fmt(step.result, 3)>>
        /\ rep[pos + 4 + n].strs = <<step.unit>>
        /\ step.notes # "" => rep[pos + 5 + n].strs = <<step.notes>>
        /\ rep[pos + SectionLen(step) - 1] = Line("", <<>>, <<>>)

\* C18: generate_calculation_report produces one section per ledger step, in
\* ledger order, each headed by the step's step_number and holding its
\* description, formula, every variable, substitution string, result with
\* unit, and its notes only when notes is not empty; an empty ledger yields the
\* title only.
C18_ReportOneSectionPerStep ==
    Calling("generate_calculation_report") =>
        LET steps == call.before.calculation_steps
            rep == call.report
        IN  /\ call.raised = "none"
            /\ rep[1] = Line("# ISO 6336 calculation\n", <<>>, <<>>)
            /\ Len(rep) = SectionStart(steps, Len(steps) + 1) - 1
            /\ \A k \in 1..Len(steps) : SectionAt(rep, SectionStart(steps, k), steps[k])
            /\ steps = <<>> => Len(rep) = 1

\* a report has been rendered of a ledger that holds a step without notes and
\* a step with notes
C18_Witness ==
    /\ Calling("generate_calculation_report")
    /\ \E j, k \in 1..Len(call.before.calculation_steps) :
           /\ call.before.calculation_steps[j].notes = ""
           /\ call.before.calculation_steps[k].notes # ""
    /\ Len(call.report) > 1

\* C19: rendering is idempotent: a second generate_calculation_report on the
\* same calculator, with no stage call in between, returns the string the first
\* returned.
C19_ReportIdempotent ==
    /\ [](Calling("generate_calculation_report") =>
              generate_calculation_report(After).report = call.report)
    /\ [][(call.op = "generate_calculation_report"
              /\ call'.op = "generate_calculation_report" /\ call'.id = call.id)
           => call'.report = call.report]_vars

\* a report has been rendered of a ledger of several steps, and the calculator
\* is as a second rendering would find it
C19_Witness ==
    /\ Calling("generate_calculation_report")
    /\ Len(After.calculation_steps) >= 2
    /\ Len(call.report) >= 1 + SectionLen(After.calculation_steps[1]) + SectionLen(After.calculation_steps[2])
    /\ ncalls >= 2

\* C20: generate_calculation_report leaves calculation_steps and step_counter
\* unchanged, so a step recorded after a rendering gets the number it would
\* have got without the rendering.
C20_ReportLeavesLedger ==
    /\ [](Calling("generate_calculation_report") =>
              /\ After.calculation_steps = call.before.calculation_steps
              /\ After.step_counter = call.before.step_counter)
    /\ [][(call.op = "generate_calculation_report" /\ call'.id = call.id
              /\ Len(heap'[call.id].calculation_steps) > Len(call.before.calculation_steps))
           => heap'[call.id].calculation_steps[Len(call.before.calculation_steps) + 1].step_number
                  = Len(call.before.calculation_steps) + 1]_vars

\* a report has been rendered in the middle of a run: the ledger holds steps
\* and calls remain to be made
C20_Witness ==
    /\ Calling("generate_calculation_report")
    /\ call.before.calculation_steps # <<>>
    /\ After = call.before
    /\ ncalls < MaxCalls

\* the methods that compute a quantity and record its steps
StageOps == {"calculate_tangential_force", "calculate_form_factor", "calculate_stress_correction_factor", "calculate_bending_stress", "calculate_contact_stress", "calculate_safety_factors"}

\* the terminal state of a calculator: the contact safety factor, the last
\* quantity of the pipeline, has been computed
Terminal(calc) ==
    \E k \in 1..Len(calc.calculation_steps) : calc.calculation_steps[k].description = "SH"

\* the next call repeats the last call: the same method on the same calculator
\* with the same arguments
Reinvoked ==
    /\ call.op \in StageOps
    /\ call'.op = call.op
    /\ call'.id = call.id
    /\ call'.args = call.args
    /\ ncalls' = ncalls + 1

\* steps, each with its number raised by n
Renumbered(steps, n) == [k \in 1..Len(steps) |-> [steps[k] EXCEPT !.step_number = @ + n]]

\* the steps the call after the last call appends
AppendedNext ==
    SubSeq(heap'[call.id].calculation_steps, Len(After.calculation_steps) + 1,
           Len(heap'[call.id].calculation_steps))

\* C21 as stated: after the terminal state a stage method invoked a second time
\* on the same calculator with the same inputs returns the same result and
\* leaves the ledger and the step counter as the first invocation left them.
C21_ReinvocationLeavesCalculator ==
    [][(Reinvoked /\ Terminal(After) /\ call.raised = "none")
       => /\ call'.raised = "none"
          /\ call'.ret = call.ret
          /\ heap'[call.id] = After]_vars

\* C21 amended: a stage method invoked a second time on the same calculator with
\* the same inputs returns the same result (or raises the same exception), and
\* records the steps of the first invocation again under the next step numbers:
\* the ledger keeps what it held and the step counter grows by their number.
C21_ReinvocationRecordsAgain ==
    [][Reinvoked
       => /\ call'.raised = call.raised
          /\ call'.ret = call.ret
          /\ IsPrefix(After.calculation_steps, heap'[call.id].calculation_steps)
          /\ AppendedNext = Renumbered(Appended, Len(Appended))
          /\ heap'[call.id].step_counter = After.step_counter + Len(Appended)]_vars

\* a stage method has returned on a calculator in its terminal state whose
\* ledger ended with the steps of the same call
C21_Witness ==
    /\ call.op \in StageOps
    /\ call.raised = "none"
    /\ Terminal(call.before)
    /\ Len(Appended) >= 1
    /\ Len(call.before.calculation_steps) >= Len(Appended)
    /\ Appended = Renumbered(SubSeq(call.before.calculation_steps,
                                    Len(call.before.calculation_steps) - Len(Appended) + 1,
                                    Len(call.before.calculation_steps)),
                             Len(Appended))

\* the calculator each run of RunParams leaves when it executes alone
AloneCalculator == [in \in RunParams |-> AloneRun(in)]

\* C22: when several runs execute in parallel, each on its own calculator, then
\* under every interleaving of their stage calls each calculator's ledger holds
\* only its own run's steps, numbered from 1 in pipeline order: it is at every
\* moment a prefix of the ledger the run produces alone, and the whole of it
\* when the run has ended; a stage of one run changes no other calculator.
C22_ParallelRunsIndependent ==
    /\ [](\A t \in DOMAIN heap :
              LET alone == AloneCalculator[task[t].params]
              IN  /\ IsPrefix(heap[t].calculation_steps, alone.calculation_steps)
                  /\ Numbered(heap[t])
                  /\ IsPrefix(Descriptions(heap[t].calculation_steps), PipelineLedger)
                  /\ task[t].pc \in {"report", "done", "failed"} => heap[t] = alone)
    /\ [][\A t \in DOMAIN heap : task'[t] = task[t] => heap'[t] = heap[t]]_vars

\* two runs with different parameters are both in the middle of their stages,
\* one ahead of the other, each with steps recorded
C22_Witness ==
    \E t, u \in DOMAIN heap :
        /\ t # u
        /\ task[t].params # task[u].params
        /\ task[t].pc = "contact"
        /\ task[u].pc = "bending"
        /\ heap[t].calculation_steps # <<>>
        /\ heap[u].calculation_steps # <<>>
        /\ heap[t].calculation_steps[2].result # heap[u].calculation_steps[2].result

\* step is a recording of the run of thread t, whatever its number
RecordedBy(step, t) ==
    \E k \in 1..Len(task[t].drafts) :
        [step EXCEPT !.step_number = 0] = [task[t].drafts[k] EXCEPT !.step_number = 0]

\* the shared ledger
Shared == heap[1].calculation_steps

\* C23: when two concurrent runs share one calculator the shared ledger mixes
\* the two runs' steps and misnumbers them (a duplicated step_number, or a list
\* order that disagrees with the numbers), because the increment of the
\* counter, its read and the append are separate operations: every completed
\* recording of either run is in the ledger, under a number between 1 and the
\* number of recordings the two runs make, and as long as no thread has been
\* preempted inside add_calculation_step the steps are numbered by their
\* positions.
C23_SharedLedgerMisnumbers ==
    /\ Len(Shared) = ncalls
    /\ \A k \in 1..Len(Shared) :
           /\ \E t \in Sharers : RecordedBy(Shared[k], t)
           /\ Shared[k].step_number \in 1..(Cardinality(Sharers) * MaxRecords)
    /\ (\A t \in Sharers : ~task[t].preempted) =>
           \A k \in 1..Len(Shared) : Shared[k].step_number = k

\* both runs have ended and the shared ledger holds a step of one run between
\* two steps of the other, and a step with a larger number before a step with
\* a smaller one
C23_Witness ==
    /\ \A t \in Sharers : task[t].pc = "done"
    /\ \E t, u \in Sharers : \E i, j, k \in 1..Len(Shared) :
           /\ i < j /\ j < k
           /\ RecordedBy(Shared[i], t) /\ ~RecordedBy(Shared[i], u)
           /\ RecordedBy(Shared[j], u) /\ ~RecordedBy(Shared[j], t)
           /\ RecordedBy(Shared[k], t) /\ ~RecordedBy(Shared[k], u)
    /\ \E i, j \in 1..Len(Shared) : i < j /\ Shared[i].step_number > Shared[j].step_number

\* C24: create_standard_gear_system returns a geometry with the given module
\* and teeth_pinion, face_width = 10 x module and pressure_angle = 20, a load
\* with the given torque and speed, and a material with allowable_bending =
\* 280, allowable_contact = 750 and elastic_modulus = 206, whatever the
\* arguments; when teeth_pinion x gear_ratio is an integer teeth_gear is that
\* integer (100 for 20 teeth and ratio 5).
C24_StandardSystemConstants ==
    Calling("create_standard_gear_system") =>
        LET geometry == call.ret[1]
            load == call.ret[2]
            material == call.ret[3]
            product == RMul(Num(call.args[2]), call.args[3])
        IN  /\ call.raised = "none"
            /\ geometry.module = call.args[1]
            /\ geometry.teeth_pinion = call.args[2]
            /\ geometry.face_width = RMul(Num(10), call.args[1])
            /\ geometry.pressure_angle = Num(20)
            /\ load.input_torque = call.args[4]
            /\ load.input_speed = call.args[5]
            /\ material.allowable_bending = Num(280)
            /\ material.allowable_contact = Num(750)
            /\ material.elastic_modulus = Num(206)
            /\ product[2] = 1 => geometry.teeth_gear = product[1]
            /\ (call.args[2] = 20 /\ call.args[3] = Num(5)) => geometry.teeth_gear = 100

\* a system has been created for a module other than 2, a pinion other than
\* 20 teeth and an integral product of teeth and ratio
C24_Witness ==
    /\ Calling("create_standard_gear_system")
    /\ call.args[1] = Dec(7, 10)
    /\ call.args[2] = 6
    /\ call.args[3] = Num(5)
    /\ call.ret[1].face_width = Num(7)
    /\ call.ret[1].teeth_gear = 30
    /\ call.ret[3].allowable_bending = Num(280)

\* C25: in every state of a GearGeometry, also after any of its stored fields
\* has been reassigned, a read of gear_ratio gives teeth_gear / teeth_pinion,
\* of pitch_diameter_pinion module x teeth_pinion, of pitch_diameter_gear
\* module x teeth_gear and of center_distance (pitch_diameter_pinion +
\* pitch_diameter_gear) / 2, for the field values the object holds at the
\* read; an assignment changes the assigned field only.
C25_DerivedValuesFollowFields ==
    /\ [](LET g == heap[1]
              d1 == RMul(g.module, Num(g.teeth_pinion))
              d2 == RMul(g.module, Num(g.teeth_gear))
          IN  /\ Calling("gear_ratio") =>
                     IF g.teeth_pinion = 0 THEN call.raised = "ZeroDivisionError"
                     ELSE call.raised = "none"
                          /\ call.ret = <<FRound(Norm(g.teeth_gear, g.teeth_pinion))>>
              /\ Calling("pitch_diameter_pinion") => call.ret = <<d1>>
              /\ Calling("pitch_diameter_gear") => call.ret = <<d2>>
              /\ Calling("center_distance") => call.ret = <<RDiv(RAdd(d1, d2), Num(2))>>)
    /\ [][call'.op = "setattr" =>
              \A f \in DOMAIN heap[1] :
                  heap'[1][f] = IF f = call'.args[1] THEN call'.args[2] ELSE heap[1][f]]_vars

\* center_distance has been read of a geometry whose module and tooth counts
\* have all been reassigned, and is not the value of the constructed geometry
C25_Witness ==
    /\ Calling("center_distance")
    /\ heap[1].module = Dec(25, 10)
    /\ heap[1].teeth_pinion = 17
    /\ heap[1].teeth_gear = 20
    /\ call.ret = <<Dec(4625, 100)>>

\* the value of the expression that the substitution string of a form factor
\* step spells out; <<>> when the string spells out no expression
SpelledOut(step) ==
    IF step.calculation.text = "Y_Fa = 0.175 - 84.1/{}"
    THEN <<RSub(Dec(175, 1000), RDiv(Dec(841, 10), step.calculation.args[1]))>>
    ELSE <<>>

\* C26: every recorded step is auditable: its formula and substitution strings
\* identify the expression that computed its result.  For every tooth count z
\* the form factor step names the band formula that produced Y_Fa: its
\* substitution string spells out an expression, whose value is the recorded
\* result, and its formula is not the formula of another band.
C26_FormFactorStepAuditable ==
    Calling("calculate_form_factor") =>
        LET step == Appended[1]
            z == call.args[1]
        IN  /\ SpelledOut(step) = <<step.result>>
            /\ step.formula = "Y_Fa = 0.175 - 84.1/z (z>25)" => z > 100

\* the results of the steps at positions ks of the steps the last call appended
Results(ks) == [i \in 1..Len(ks) |-> Appended[ks[i]].result]

\* C27: a stage method that returns normally returns the result fields of the
\* steps it recorded for the quantity: calculate_tangential_force and
\* calculate_contact_stress the result of the last step they appended,
\* calculate_bending_stress the results of its 3rd and 6th appended steps,
\* calculate_safety_factors the results of its three appended steps in order
\* (and each factor method the result of its one step).
C27_ReturnedIsRecorded ==
    call.raised = "none" =>
        /\ Calling("calculate_tangential_force") =>
               Len(Appended) = 2 /\ call.ret = Results(<<Len(Appended)>>)
        /\ Calling("calculate_contact_stress") =>
               Len(Appended) = 4 /\ call.ret = Results(<<Len(Appended)>>)
        /\ Calling("calculate_bending_stress") =>
               Len(Appended) = 6 /\ call.ret = Results(<<3, 6>>)
        /\ Calling("calculate_safety_factors") =>
               Len(Appended) = 3 /\ call.ret = Results(<<1, 2, 3>>)
        /\ (Calling("calculate_form_factor") \/ Calling("calculate_stress_correction_factor")) =>
               Len(Appended) = 1 /\ call.ret = Results(<<1>>)

\* calculate_bending_stress has returned two different stresses on a ledger
\* that held earlier steps
C27_Witness ==
    /\ Calling("calculate_bending_stress")
    /\ call.raised = "none"
    /\ call.before.calculation_steps # <<>>
    /\ call.ret[1] # call.ret[2]
    /\ call.ret[2] = Appended[6].result

\* a run of positive module, face width and torque and of at least one tooth
\* on each member has completed
PositiveRunDone(t) ==
    /\ task[t].pc = "done"
    /\ IsPos(task[t].geometry.module)
    /\ IsPos(task[t].geometry.face_width)
    /\ IsPos(task[t].load.input_torque)
    /\ task[t].geometry.teeth_pinion >= 1
    /\ task[t].geometry.teeth_gear >= 1

\* C28: for module > 0, face_width > 0, input_torque > 0 and at least one tooth
\* on each member, a completed run returns strictly positive bending stresses
\* for both members and strictly positive safety factors SF_pinion and SF_gear.
C28_PositiveStressesAndFactors ==
    \A t \in DOMAIN heap :
        PositiveRunDone(t) =>
            /\ IsPos(task[t].sigma_F[1])
            /\ IsPos(task[t].sigma_F[2])
            /\ IsPos(task[t].SF[1])
            /\ IsPos(task[t].SF[2])

\* create_standard_gear_system has been called with positive arguments
PositiveFactoryCall ==
    /\ Calling("create_standard_gear_system")
    /\ IsPos(call.args[1]) /\ call.args[2] > 0 /\ IsPos(call.args[3])
    /\ IsPos(call.args[4]) /\ IsPos(call.args[5])

\* machine epsilon: the distance from 1 to the next float
Epsilon == Norm(1, Pow10(SigDigits - 1))

\* the bending and the contact stage both raise for geometry g
StagesFail(g, load, material) ==
    /\ calculate_bending_stress(NewCalculator, g, load, Num(1000)).raised # "none"
    /\ calculate_contact_stress(NewCalculator, g, material, Num(1000)).raised # "none"

C30_EachAnalysisFifteenSteps ==
    \A t \in DOMAIN heap :
        task[t].pc = "done" =>
            LET steps == heap[t].calculation_steps
                rep == task[t].detailed_report
            IN  /\ task[t].total_calculation_steps = 15
                /\ Len(steps) = 15
                /\ Len(rep) = SectionStart(steps, 16) - 1
                /\ \A k \in 1..15 :
                       /\ rep[SectionStart(steps, k)].nums = <<Num(k)>>
                       /\ rep[SectionStart(steps, k)].strs = <<PipelineLedger[k]>>
                /\ rep = generate_calculation_report(AloneCalculator[task[t].params]).report

\* two calls with different parameters have both succeeded, each with its own
\* report
C30_Witness ==
    \E t, u \in DOMAIN heap :
        /\ t # u
        /\ task[t].pc = "done" /\ task[u].pc = "done"
        /\ task[t].params # task[u].params
        /\ task[t].total_calculation_steps = 15
        /\ task[u].total_calculation_steps = 15
        /\ task[t].detailed_report # task[u].detailed_report
=============================================================================
